---- MODULE Spec2Model ----
(***************************************************************************)
(* Model of the repository browser: the forge client of                    *)
(* src/services/github.ts (parseRepoUrl, handleApiResponse, the fetch      *)
(* operations, fetchFileContent, buildTreeStructure) and the handlers of   *)
(* the App component (src/unnamed/part_000).                               *)
(*                                                                         *)
(* Strings are sequences of one-character strings, so that trim, endsWith, *)
(* slice, split, includes and the URL constructor are computed and not     *)
(* assumed.                                                                *)
(***************************************************************************)
EXTENDS Integers, Sequences, FiniteSets, Bags, TLC

VARIABLES
    mode,         \* which part of the program this behaviour exercises
    input,        \* buildTreeStructure: the entry list as the caller passed it
    items,        \* buildTreeStructure: the caller's array object (sorted in place by the call)
    treeOut,      \* buildTreeStructure: the returned root list (nested nodes)
    treeMap,      \* buildTreeStructure: its map object (path -> node, children as paths) at return
    treeCalled,   \* buildTreeStructure has returned
    urlBase,      \* parseRepoUrl: the repository reference the input is built on
    urlArg,       \* parseRepoUrl: the input string
    parseOut,     \* parseRepoUrl: the value returned
    parseCalled,  \* parseRepoUrl has returned
    apiOp,        \* fetchRepoDetails / fetchBranches / fetchTree: the operation called
    apiResp,      \* the HTTP response the forge gives to its request
    apiOut,       \* what the operation returned or threw
    ffPc,         \* fetchFileContent: "idle", "contents" (awaiting), "blob" (awaiting), "done"
    ffSha,        \* fetchFileContent: the sha argument (<<>> when none was supplied)
    ffRequests,   \* fetchFileContent: the requests issued so far, in order
    ffResponses,  \* fetchFileContent: the responses received so far, in order
    ffResult,     \* fetchFileContent: the content returned or the error thrown
    urlInput,     \* App state (useState): the text of the repository input
    appState,     \* App state: IDLE, LOADING_REPO, SELECTING_BRANCH, LOADING_TREE, VIEWING, ERROR
    errorMsg,     \* App state: <<>> (null) or <<message>>
    repoDetails,  \* App state: <<>> (null) or <<details>>
    branches,     \* App state: the branch list
    selectedBranch, \* App state: the name of the selected branch
    treeData,     \* App state: the forest shown
    allItems,     \* App state: the raw entry list
    aiAnalysis,   \* App state: <<>> (null) or <<text>>
    isAnalyzing,  \* App state
    activeTab,    \* App state: "overview" or "docs"
    selectedFile, \* App state: <<>> (null) or <<node>>
    fileDoc,      \* App state: <<>> (null) or <<text>>
    cbBranches,   \* the branches value seen by the memoized handleFetchRepo (its render's)
    loads,        \* the handleFetchRepo invocations suspended at an await
    treeFetches,  \* the fetchRepoTree invocations suspended at their await
    analyses,     \* the analyzeRepoArchitecture calls not yet settled
    lastStep,     \* the handler step taken last and what it received
    showExportModal,  \* App state
    exportFormat,     \* App state: "markdown" or "html"
    isExporting,      \* App state
    exportProgress,   \* App state: [current, total, currentFile]
    exportCandidates, \* App state: list of [path, sha, selected]
    exPc,         \* handleExportDocs: "idle", or the await it is suspended at
    exFiles,      \* handleExportDocs: filesToProcess
    exFormat,     \* handleExportDocs: the exportFormat of the render it was made in
    exI,          \* handleExportDocs: the loop variable i (0-based)
    exContent,    \* handleExportDocs: the content fetched for the current file
    exInFlight,   \* the requests and timers of handleExportDocs not yet settled
    exFinished,   \* the positions in filesToProcess whose fetch-then-generate pair has ended
    exFailed,     \* the positions in filesToProcess whose iteration threw
    zipFiles,     \* the entries of the JSZip folder, in insertion order
    exSaved,      \* <<>> or <<archive>>: the download made by the latest export
    exAlert,      \* <<>> or <<text>>: the alert shown by the latest export
    localStorage, \* the credential store: <<>> or <<the value under TOKEN_KEY>>
    sent,         \* the requests githubFetch has handed to fetch, in order
    mounted,      \* the mount effect of App has run
    hasToken,     \* App state
    tokenInput,   \* App state: the text of the token field
    showSettingsModal, \* App state
    isGeneratingDoc,   \* App state
    selections,   \* the handleFileSelect invocations suspended at an await
    treeOf        \* <<>> or <<sha>>: the tree request whose response set treeData last

treeVars == <<input, items, treeOut, treeMap, treeCalled>>
parseVars == <<urlBase, urlArg, parseOut, parseCalled>>
apiVars == <<apiOp, apiResp, apiOut>>
ffVars == <<ffPc, ffSha, ffRequests, ffResponses, ffResult>>
uiVars == <<urlInput, appState, errorMsg, repoDetails, branches, selectedBranch,
            treeData, allItems, aiAnalysis, isAnalyzing, activeTab, selectedFile,
            fileDoc>>
procVars == <<cbBranches, loads, treeFetches, analyses, lastStep>>
exportVars == <<showExportModal, exportFormat, isExporting, exportProgress,
                exportCandidates, exPc, exFiles, exFormat, exI, exContent,
                exInFlight, exFinished, exFailed, zipFiles, exSaved, exAlert>>
tokenVars == <<localStorage, sent, mounted, hasToken, tokenInput, showSettingsModal>>
viewVars == <<isGeneratingDoc, selections, treeOf>>
appVars == <<uiVars, procVars, exportVars>>
vars == <<mode, tokenVars, viewVars, treeVars, parseVars, apiVars, ffVars, appVars>>

(***************************************************************************)
(* Bounds                                                                  *)
(***************************************************************************)
MaxEntries == 3      \* longest entry list handed to buildTreeStructure
MaxInFlight == 1     \* suspended loads, tree fetches and analyses at one time
MaxPending == 2      \* suspended invocations at one time on the viewing page

(***************************************************************************)
(* String helpers (JavaScript String methods)                              *)
(***************************************************************************)
SLASH == "/"

startsWith(s, t) ==
    Len(t) <= Len(s) /\ SubSeq(s, 1, Len(t)) = t

endsWith(s, t) ==
    Len(t) <= Len(s) /\ SubSeq(s, Len(s) - Len(t) + 1, Len(s)) = t

includes(s, t) ==
    \E i \in 1..(Len(s) - Len(t) + 1) : SubSeq(s, i, i + Len(t) - 1) = t

\* s.slice(0, -n)
sliceEnd(s, n) ==
    IF n >= Len(s) THEN <<>> ELSE SubSeq(s, 1, Len(s) - n)

RECURSIVE split(_, _)
\* s.split(sep) for a one-character separator: "".split("/") is [""]
split(s, sep) ==
    IF \A i \in 1..Len(s) : s[i] # sep
    THEN <<s>>
    ELSE LET i == CHOOSE k \in 1..Len(s) :
                      s[k] = sep /\ \A j \in 1..(k - 1) : s[j] # sep
         IN  <<SubSeq(s, 1, i - 1)>> \o split(SubSeq(s, i + 1, Len(s)), sep)

RECURSIVE join(_, _)
\* parts.join(sep): [].join("/") is ""
join(parts, sep) ==
    IF parts = <<>> THEN <<>>
    ELSE IF Len(parts) = 1 THEN parts[1]
    ELSE parts[1] \o <<sep>> \o join(Tail(parts), sep)

(***************************************************************************)
(* buildTreeStructure (src/services/github.ts)                             *)
(***************************************************************************)
\* collation rank of the characters that occur in paths: punctuation sorts
\* before letters, letters alphabetically
CharRank(c) ==
    CASE c = "_" -> 0
      [] c = "." -> 1
      [] c = "/" -> 2
      [] c = "a" -> 3
      [] c = "b" -> 4
      [] c = "d" -> 5
      [] c = "m" -> 6
      [] c = "s" -> 7
      [] c = "t" -> 8
      [] c = "x" -> 9
      [] c = "z" -> 10
      [] OTHER -> 11

RECURSIVE localeCompare(_, _)
localeCompare(a, b) ==
    IF a = <<>> /\ b = <<>> THEN 0
    ELSE IF a = <<>> THEN -1
    ELSE IF b = <<>> THEN 1
    ELSE IF CharRank(Head(a)) < CharRank(Head(b)) THEN -1
    ELSE IF CharRank(Head(a)) > CharRank(Head(b)) THEN 1
    ELSE localeCompare(Tail(a), Tail(b))

\* mutant: files before directories
compareItems_filesFirst(a, b) ==
    IF a.type = b.type THEN localeCompare(a.path, b.path)
    ELSE IF a.type = "tree" THEN 1 ELSE -1

\* the comparator handed to items.sort
compareItems(a, b) ==
    IF a.type = b.type THEN localeCompare(a.path, b.path)
    ELSE IF a.type = "tree" THEN -1 ELSE 1

RECURSIVE insertSorted(_, _)
insertSorted(s, x) ==
    IF s = <<>> THEN <<x>>
    ELSE IF compareItems(x, Head(s)) < 0 THEN <<x>> \o s
    ELSE <<Head(s)>> \o insertSorted(Tail(s), x)

\* mutant: the list is walked in the order given
sortItems_unsorted(s) == s

RECURSIVE sortItems(_)
\* Array.prototype.sort with compareItems: a stable sort
sortItems(s) ==
    IF s = <<>> THEN <<>>
    ELSE insertSorted(sortItems(SubSeq(s, 1, Len(s) - 1)), s[Len(s)])

\* mutant: every node is given a children array
newNode_alwaysChildren(item, fileName) ==
    [name |-> fileName, path |-> item.path, type |-> item.type,
     sha |-> item.sha, hasChildren |-> TRUE, children |-> <<>>]

\* the node object of an entry: children is [] for a tree and undefined
\* (hasChildren FALSE) otherwise
newNode(item, fileName) ==
    [name |-> fileName, path |-> item.path, type |-> item.type,
     sha |-> item.sha, hasChildren |-> (item.type = "tree"),
     children |-> <<>>]

\* one iteration of items.forEach: acc is [root: list of paths, map: path -> node],
\* a node's children being the list of the paths of its child nodes
addItem(acc, item) ==
    LET parts0 == split(item.path, SLASH)
        fileName == parts0[Len(parts0)]
        parts == SubSeq(parts0, 1, Len(parts0) - 1)
        parentPath == join(parts, SLASH)
        node == newNode(item, fileName)
        map1 == [p \in (DOMAIN acc.map) \cup {item.path} |->
                    IF p = item.path THEN node ELSE acc.map[p]]
    IN  IF Len(parts) = 0
        THEN [root |-> Append(acc.root, item.path), map |-> map1]
        ELSE IF parentPath \in DOMAIN map1
             THEN IF map1[parentPath].hasChildren
                  THEN [root |-> acc.root,
                        map |-> [map1 EXCEPT ![parentPath].children =
                                                Append(@, item.path)]]
                  ELSE [root |-> acc.root, map |-> map1]
             ELSE [root |-> Append(acc.root, item.path), map |-> map1]

RECURSIVE forEachItem(_, _)
forEachItem(acc, s) ==
    IF s = <<>> THEN acc ELSE forEachItem(addItem(acc, Head(s)), Tail(s))

RECURSIVE nodeOf(_, _)
\* the node object stored under path p, with its children nested inside
nodeOf(map, p) ==
    [name |-> map[p].name, path |-> map[p].path, type |-> map[p].type,
     sha |-> map[p].sha, hasChildren |-> map[p].hasChildren,
     children |-> [i \in 1..Len(map[p].children) |->
                      nodeOf(map, map[p].children[i])]]

\* the map object of buildTreeStructure after its loop over the array s
mapOf(s) == forEachItem([root |-> <<>>, map |-> <<>>], sortItems(s)).map

\* the value returned by buildTreeStructure for the array s
buildTreeStructure(s) ==
    LET acc == forEachItem([root |-> <<>>, map |-> <<>>], sortItems(s))
    IN  [i \in 1..Len(acc.root) |-> nodeOf(acc.map, acc.root[i])]

(***************************************************************************)
(* parseRepoUrl (src/services/github.ts)                                   *)
(***************************************************************************)
Lower == {"a", "b", "c", "d", "e", "f", "g", "h", "i", "j", "k", "l", "m",
          "n", "o", "p", "q", "r", "s", "t", "u", "v", "w", "x", "y", "z"}
Upper == {"A", "B", "C", "D", "E", "F", "G", "H", "I", "J", "K", "L", "M",
          "N", "O", "P", "Q", "R", "S", "T", "U", "V", "W", "X", "Y", "Z"}
Digit == {"0", "1", "2", "3", "4", "5", "6", "7", "8", "9"}
AlNum == Lower \cup Upper \cup Digit

S_git == <<".", "g", "i", "t">>
S_http == <<"h", "t", "t", "p">>
S_https == <<"h", "t", "t", "p", "s">>
S_httpsPrefix == <<"h", "t", "t", "p", "s", ":", "/", "/">>
S_httpPrefix == <<"h", "t", "t", "p", ":", "/", "/">>
S_github == <<"g", "i", "t", "h", "u", "b", ".", "c", "o", "m">>

RECURSIVE trimStart(_)
trimStart(s) ==
    IF s # <<>> /\ Head(s) = " " THEN trimStart(Tail(s)) ELSE s

RECURSIVE trimEnd(_)
trimEnd(s) ==
    IF s # <<>> /\ s[Len(s)] = " " THEN trimEnd(SubSeq(s, 1, Len(s) - 1)) ELSE s

\* String.prototype.trim
trim(s) == trimEnd(trimStart(s))

\* /^[a-zA-Z0-9-]+\/[a-zA-Z0-9-_.]+$/.test(s)
simplePattern(s) ==
    \E k \in 2..(Len(s) - 1) :
        /\ s[k] = SLASH
        /\ \A i \in 1..(k - 1) : s[i] \in AlNum \cup {"-"}
        /\ \A i \in (k + 1)..Len(s) : s[i] \in AlNum \cup {"-", "_", "."}

\* parts.filter(Boolean) on a list of strings: the non-empty ones
filterNonEmpty(parts) == SelectSeq(parts, LAMBDA x : x # <<>>)

(***************************************************************************)
(* new URL(s) without a base, for the strings parseRepoUrl passes it: the  *)
(* result is a failure (the constructor throws) or a hostname and a        *)
(* pathname.  Userinfo, query and fragment do not occur in the inputs.     *)
(***************************************************************************)
URLFailure == [ok |-> FALSE, hostname |-> <<>>, pathname |-> <<>>]

SpecialSchemes ==
    {S_http, S_https, <<"f", "t", "p">>, <<"w", "s">>, <<"w", "s", "s">>}

\* position of the colon ending the scheme, 0 if s does not start with a scheme
schemeEnd(s) ==
    IF \E k \in 2..Len(s) :
           /\ s[k] = ":"
           /\ s[1] \in Lower \cup Upper
           /\ \A i \in 2..(k - 1) : s[i] \in AlNum \cup {"+", "-", "."}
    THEN CHOOSE k \in 2..Len(s) :
           /\ s[k] = ":"
           /\ \A i \in 2..(k - 1) : s[i] # ":"
    ELSE 0

RECURSIVE skipSlashes(_)
skipSlashes(s) ==
    IF s # <<>> /\ Head(s) = SLASH THEN skipSlashes(Tail(s)) ELSE s

\* the first n characters of s up to (excluding) the first occurrence of c
upTo(s, c) ==
    IF \E i \in 1..Len(s) : s[i] = c
    THEN SubSeq(s, 1, (CHOOSE k \in 1..Len(s) :
                          s[k] = c /\ \A j \in 1..(k - 1) : s[j] # c) - 1)
    ELSE s

ForbiddenHostChars == {" ", "#", "/", "<", ">", "?", "@", "[", "\\", "]", "^", "|", "%"}

RECURSIVE normalizeSegments(_, _)
\* the path state: "." segments are dropped, ".." removes the segment before
normalizeSegments(done, todo) ==
    IF todo = <<>> THEN done
    ELSE IF Head(todo) = <<".">>
         THEN normalizeSegments(IF Len(todo) = 1 THEN Append(done, <<>>) ELSE done,
                                Tail(todo))
    ELSE IF Head(todo) = <<".", ".">>
         THEN normalizeSegments(
                 IF Len(todo) = 1
                 THEN Append(sliceEnd(done, 1), <<>>)
                 ELSE sliceEnd(done, 1),
                 Tail(todo))
    ELSE normalizeSegments(Append(done, Head(todo)), Tail(todo))

RECURSIVE percentEncode(_)
\* the path percent-encode set, of which only the space occurs in the inputs
percentEncode(s) ==
    IF s = <<>> THEN <<>>
    ELSE IF Head(s) = " " THEN <<"%", "2", "0">> \o percentEncode(Tail(s))
    ELSE <<Head(s)>> \o percentEncode(Tail(s))

newURL(s0) ==
    LET s == trim(s0)
        k == schemeEnd(s)
    IN  IF k = 0 THEN URLFailure
        ELSE
        LET scheme == SubSeq(s, 1, k - 1)
            rest == SubSeq(s, k + 1, Len(s))
        IN  IF scheme \notin SpecialSchemes
            THEN \* a non-special scheme: a host only after "//"
                 IF startsWith(rest, <<SLASH, SLASH>>)
                 THEN LET r2 == SubSeq(rest, 3, Len(rest))
                          auth == upTo(r2, SLASH)
                      IN  IF \E i \in 1..Len(auth) : auth[i] \in ForbiddenHostChars
                          THEN URLFailure
                          ELSE [ok |-> TRUE, hostname |-> upTo(auth, ":"),
                                pathname |-> percentEncode(
                                    SubSeq(r2, Len(auth) + 1, Len(r2)))]
                 ELSE [ok |-> TRUE, hostname |-> <<>>, pathname |-> rest]
            ELSE
            LET r2 == skipSlashes(rest)
                auth == upTo(r2, SLASH)
                host == upTo(auth, ":")
                port == SubSeq(auth, Len(host) + 2, Len(auth))
                rawPath == SubSeq(r2, Len(auth) + 1, Len(r2))
                segs == IF rawPath = <<>> THEN <<<<>>>>
                        ELSE normalizeSegments(<<>>, Tail(split(rawPath, SLASH)))
                segs1 == IF segs = <<>> THEN <<<<>>>> ELSE segs
            IN  IF host = <<>> THEN URLFailure
                ELSE IF \E i \in 1..Len(host) : host[i] \in ForbiddenHostChars
                THEN URLFailure
                ELSE IF \E i \in 1..Len(port) : port[i] \notin Digit
                THEN URLFailure
                ELSE [ok |-> TRUE, hostname |-> host,
                      pathname |-> percentEncode(<<SLASH>> \o join(segs1, SLASH))]

Null == [kind |-> "null", owner |-> <<>>, repo |-> <<>>]
Threw == [kind |-> "throw", owner |-> <<>>, repo |-> <<>>]
Pair(o, r) == [kind |-> "pair", owner |-> o, repo |-> r]

\* the preprocessing at the head of the try block
preprocess(inp) ==
    LET u0 == trim(inp)
        u1 == IF endsWith(u0, S_git) THEN sliceEnd(u0, 4) ELSE u0
    IN  IF endsWith(u1, <<SLASH>>) THEN sliceEnd(u1, 1) ELSE u1

\* the string handed to the URL constructor, when the code gets that far
urlForConstructor(url) ==
    IF ~startsWith(url, S_http) /\ includes(url, S_github)
    THEN S_httpsPrefix \o url
    ELSE url

\* the body of the try block: a pair, null, or an exception of new URL
parseRepoUrlTry(inp) ==
    LET url == preprocess(inp)
    IN  IF simplePattern(url)
        THEN LET p == split(url, SLASH) IN Pair(p[1], p[2])
        ELSE IF /\ ~startsWith(url, S_http)
                /\ ~includes(url, S_github)
                /\ Len(split(url, SLASH)) = 2
        THEN LET p == split(url, SLASH) IN Pair(p[1], p[2])
        ELSE LET urlObj == newURL(urlForConstructor(url))
             IN  IF ~urlObj.ok THEN Threw
                 ELSE IF includes(urlObj.hostname, S_github)
                 THEN LET pathParts ==
                              filterNonEmpty(split(urlObj.pathname, SLASH))
                      IN  IF Len(pathParts) >= 2
                          THEN Pair(pathParts[1], pathParts[2])
                          ELSE Null
                 ELSE Null

\* mutant: no catch clause
parseRepoUrl_noCatch(inp) == parseRepoUrlTry(inp)

\* parseRepoUrl: the catch clause maps an exception to null
parseRepoUrl(inp) ==
    LET r == parseRepoUrlTry(inp)
    IN  IF r.kind = "throw" THEN Null ELSE r

(***************************************************************************)
(* HTTP responses and handleApiResponse (src/services/github.ts)           *)
(***************************************************************************)
\* a Response: fetch rejected (net = FALSE) or a status line and a body;
\* json is FALSE when response.json() rejects
HttpResponse(st, txt, b) ==
    [net |-> TRUE, status |-> st, statusText |-> txt, json |-> TRUE, body |-> b]

\* Response.ok
responseOk(r) == r.status >= 200 /\ r.status <= 299

MSG_RATE_LIMIT ==
    "GitHub API Rate Limit Exceeded. Please configure a Token in settings or wait an hour."
MSG_NOT_FOUND ==
    "Repository not found or is private (Check your Token if private)."
MSG_BAD_CREDENTIALS ==
    "Bad Credentials. Please check your GitHub Token in settings."
MSG_API_ERROR == "GitHub API Error: "

Returned(v) ==
    [kind |-> "ok", value |-> v, msg |-> "", status |-> 0, statusText |-> ""]
ThrewError(m) ==
    [kind |-> "error", value |-> <<>>, msg |-> m, status |-> 0, statusText |-> ""]
\* Error(`GitHub API Error: ${status} ${statusText}`)
ThrewApiError(st, txt) ==
    [kind |-> "error", value |-> <<>>, msg |-> MSG_API_ERROR,
     status |-> st, statusText |-> txt]

\* mutant: only 403 is taken for a rate limit
handleApiResponse_no429(r) ==
    IF responseOk(r) THEN Returned(r.body)
    ELSE IF r.status = 403 THEN ThrewError(MSG_RATE_LIMIT)
    ELSE IF r.status = 404 THEN ThrewError(MSG_NOT_FOUND)
    ELSE IF r.status = 401 THEN ThrewError(MSG_BAD_CREDENTIALS)
    ELSE ThrewApiError(r.status, r.statusText)

handleApiResponse(r) ==
    IF responseOk(r) THEN Returned(r.body)
    ELSE IF r.status = 403 \/ r.status = 429 THEN ThrewError(MSG_RATE_LIMIT)
    ELSE IF r.status = 404 THEN ThrewError(MSG_NOT_FOUND)
    ELSE IF r.status = 401 THEN ThrewError(MSG_BAD_CREDENTIALS)
    ELSE ThrewApiError(r.status, r.statusText)

fetchRepoDetails(r) ==
    LET res == handleApiResponse(r)
    IN  IF res.kind = "ok"
        THEN Returned([owner |-> res.value.owner.login,
                       name |-> res.value.name,
                       description |-> res.value.description,
                       stars |-> res.value.stargazers_count,
                       forks |-> res.value.forks_count,
                       default_branch |-> res.value.default_branch])
        ELSE res

fetchBranches(r) == handleApiResponse(r)

fetchTree(r) ==
    LET res == handleApiResponse(r)
    IN  IF res.kind = "ok" THEN Returned(res.value.tree) ELSE res

(***************************************************************************)
(* Responses of the forge to the three operations                          *)
(***************************************************************************)
Statuses == {200, 201, 299, 300, 304, 400, 401, 403, 404, 422, 429, 500, 503}
StatusTexts == {"", "Forbidden"}

Branch(n, c) == [name |-> n, commit |-> [sha |-> c]]

DefaultBranches == {"main", "dev"}

\* the body of GET /repos/{owner}/{repo}
DetailsPayloadsFor(owner, repo) ==
    {[owner |-> [login |-> owner], name |-> repo, description |-> "d",
      stargazers_count |-> 1, forks_count |-> 2, default_branch |-> b] :
        b \in DefaultBranches}

DetailsPayloads == DetailsPayloadsFor(<<"o">>, <<"r">>)

BranchPayloads ==
    {<<>>, <<Branch("main", "c1"), Branch("dev", "c2")>>,
     <<Branch("dev", "c2"), Branch("main", "c1")>>, <<Branch("dev", "c2")>>}

TreeLists ==
    {<<>>,
     <<[path |-> <<"a">>, type |-> "tree", sha |-> <<"s", "1">>]>>,
     <<[path |-> <<"z">>, type |-> "blob", sha |-> <<"s", "1">>],
       [path |-> <<"a">>, type |-> "tree", sha |-> <<"s", "1">>],
       [path |-> <<"a", "/", "m">>, type |-> "blob", sha |-> <<"s", "1">>]>>}

TreePayloads == {[tree |-> t, truncated |-> tr] : t \in TreeLists, tr \in BOOLEAN}

NoBody == <<>>

ResponsesWith(statuses, texts, payloads) ==
    {HttpResponse(st, txt, b) :
        st \in {x \in statuses : x >= 200 /\ x <= 299},
        txt \in texts, b \in payloads}
    \cup
    {HttpResponse(st, txt, NoBody) :
        st \in {x \in statuses : x < 200 \/ x > 299}, txt \in texts}

ApiResponses(payloads) == ResponsesWith(Statuses, StatusTexts, payloads)

NoResponse == [net |-> FALSE, status |-> 0, statusText |-> "", json |-> FALSE,
               body |-> NoBody]
NoOutcome ==
    [kind |-> "none", value |-> <<>>, msg |-> "", status |-> 0, statusText |-> ""]

\* the variables of the parts a behaviour does not exercise
IdleTree ==
    /\ input = <<>>
    /\ items = <<>>
    /\ treeOut = <<>>
    /\ treeMap = <<>>
    /\ treeCalled = FALSE

IdleParse ==
    /\ urlBase = <<>>
    /\ urlArg = <<>>
    /\ parseOut = [kind |-> "none", owner |-> <<>>, repo |-> <<>>]
    /\ parseCalled = FALSE

IdleApi ==
    /\ apiOp = "none"
    /\ apiResp = NoResponse
    /\ apiOut = NoOutcome

IdleFetch ==
    /\ ffPc = "idle"
    /\ ffSha = <<>>
    /\ ffRequests = <<>>
    /\ ffResponses = <<>>
    /\ ffResult = [kind |-> "none", text |-> <<>>, msg |-> ""]

NoStep == [op |-> "none", defaultBranch |-> "", branchList |-> <<>>]

\* the App component after its first render (the useState initial values)
NoProgress == [current |-> 0, total |-> 0, currentFile |-> <<>>]

\* the credential store is empty and the settings state is as first rendered
IdleToken ==
    /\ localStorage = <<>>
    /\ sent = <<>>
    /\ mounted = FALSE
    /\ hasToken = FALSE
    /\ tokenInput = <<>>
    /\ showSettingsModal = FALSE

IdleView ==
    /\ isGeneratingDoc = FALSE
    /\ selections = EmptyBag
    /\ treeOf = <<>>

IdleExport ==
    /\ showExportModal = FALSE
    /\ exportFormat = "markdown"
    /\ isExporting = FALSE
    /\ exportProgress = NoProgress
    /\ exportCandidates = <<>>
    /\ exPc = "idle"
    /\ exFiles = <<>>
    /\ exFormat = "markdown"
    /\ exI = 0
    /\ exContent = <<>>
    /\ exInFlight = {}
    /\ exFinished = {}
    /\ exFailed = {}
    /\ zipFiles = <<>>
    /\ exSaved = <<>>
    /\ exAlert = <<>>

\* the page state after the first render, with nothing in flight
IdlePage ==
    /\ urlInput = <<>>
    /\ appState = "IDLE"
    /\ errorMsg = <<>>
    /\ repoDetails = <<>>
    /\ branches = <<>>
    /\ selectedBranch = ""
    /\ treeData = <<>>
    /\ allItems = <<>>
    /\ aiAnalysis = <<>>
    /\ isAnalyzing = FALSE
    /\ activeTab = "overview"
    /\ selectedFile = <<>>
    /\ fileDoc = <<>>
    /\ cbBranches = <<>>
    /\ loads = EmptyBag
    /\ treeFetches = EmptyBag
    /\ analyses = 0
    /\ lastStep = NoStep

IdleApp ==
    /\ IdleToken /\ IdleView
    /\ IdleExport
    /\ IdlePage

InitApi ==
    /\ mode = "api"
    /\ IdleApi
    /\ IdleTree /\ IdleParse /\ IdleFetch /\ IdleApp

CallFetchRepoDetails ==
    /\ mode = "api" /\ apiOp = "none"
    /\ \E r \in ApiResponses(DetailsPayloads) :
           /\ apiResp' = r
           /\ apiOut' = fetchRepoDetails(r)
    /\ apiOp' = "fetchRepoDetails"
    /\ UNCHANGED <<mode, tokenVars, viewVars, treeVars, parseVars, ffVars, appVars>>

CallFetchBranches ==
    /\ mode = "api" /\ apiOp = "none"
    /\ \E r \in ApiResponses(BranchPayloads) :
           /\ apiResp' = r
           /\ apiOut' = fetchBranches(r)
    /\ apiOp' = "fetchBranches"
    /\ UNCHANGED <<mode, tokenVars, viewVars, treeVars, parseVars, ffVars, appVars>>

CallFetchTree ==
    /\ mode = "api" /\ apiOp = "none"
    /\ \E r \in ApiResponses(TreePayloads) :
           /\ apiResp' = r
           /\ apiOut' = fetchTree(r)
    /\ apiOp' = "fetchTree"
    /\ UNCHANGED <<mode, tokenVars, viewVars, treeVars, parseVars, ffVars, appVars>>

NextApi == CallFetchRepoDetails \/ CallFetchBranches \/ CallFetchTree

SpecApi == InitApi /\ [][NextApi]_vars

(***************************************************************************)
(* fetchFileContent (src/services/github.ts): decodeContent                *)
(***************************************************************************)
B64 ==
    <<"A", "B", "C", "D", "E", "F", "G", "H", "I", "J", "K", "L", "M", "N", "O", "P">> \o
    <<"Q", "R", "S", "T", "U", "V", "W", "X", "Y", "Z", "a", "b", "c", "d", "e", "f">> \o
    <<"g", "h", "i", "j", "k", "l", "m", "n", "o", "p", "q", "r", "s", "t", "u", "v">> \o
    <<"w", "x", "y", "z", "0", "1", "2", "3", "4", "5", "6", "7", "8", "9", "+", "/">>

b64Index(c) == (CHOOSE i \in 1..64 : B64[i] = c) - 1

\* str.replace(/\n/g, '')
removeNewlines(str) == SelectSeq(str, LAMBDA c : c # "\n")

stripPadding(s) ==
    IF Len(s) % 4 = 0 /\ endsWith(s, <<"=", "=">>) THEN sliceEnd(s, 2)
    ELSE IF Len(s) % 4 = 0 /\ endsWith(s, <<"=">>) THEN sliceEnd(s, 1)
    ELSE s

RECURSIVE b64Bytes(_)
\* the bytes of a string of base64 digits, the leftover bits being dropped
b64Bytes(s) ==
    IF Len(s) >= 4
    THEN LET n == b64Index(s[1]) * 262144 + b64Index(s[2]) * 4096
                  + b64Index(s[3]) * 64 + b64Index(s[4])
         IN  <<n \div 65536, (n \div 256) % 256, n % 256>>
             \o b64Bytes(SubSeq(s, 5, Len(s)))
    ELSE IF Len(s) = 3
    THEN LET n == (b64Index(s[1]) * 4096 + b64Index(s[2]) * 64
                   + b64Index(s[3])) \div 4
         IN  <<n \div 256, n % 256>>
    ELSE IF Len(s) = 2
    THEN <<(b64Index(s[1]) * 64 + b64Index(s[2])) \div 16>>
    ELSE <<>>

\* atob: ok is FALSE when it throws InvalidCharacterError
atob(str) ==
    LET s == stripPadding(SelectSeq(str, LAMBDA c : c \notin {" ", "\n", "\t", "\r", "\f"}))
    IN  IF Len(s) % 4 = 1 \/ \E i \in 1..Len(s) : \A k \in 1..64 : B64[k] # s[i]
        THEN [ok |-> FALSE, bytes |-> <<>>]
        ELSE [ok |-> TRUE, bytes |-> b64Bytes(s)]

\* the UTF-8 byte order mark
BOM == <<239, 187, 191>>

\* new TextDecoder('utf-8').decode(bytes), as code points: a leading byte
\* order mark is dropped (ignoreBOM is false); of the rest a byte that is not
\* ASCII becomes U+FFFD (the payloads of the model hold ASCII text)
utf8Decode(bytes) ==
    LET rest == IF startsWith(bytes, BOM) THEN SubSeq(bytes, 4, Len(bytes))
                ELSE bytes
    IN  [i \in 1..Len(rest) |-> IF rest[i] < 128 THEN rest[i] ELSE 65533]

\* decodeContent: when atob throws, the catch clause calls atob again on the
\* same string, which throws again, so the exception leaves decodeContent
decodeContent(str) ==
    LET a == atob(removeNewlines(str))
    IN  IF a.ok THEN [ok |-> TRUE, text |-> utf8Decode(a.bytes)]
        ELSE [ok |-> FALSE, text |-> <<>>]

(***************************************************************************)
(* fetchFileContent: the two strategies                                    *)
(***************************************************************************)
MSG_FF_RATE_LIMIT == "Rate Limit Exceeded"
MSG_FF_UNAVAILABLE == "Failed to fetch content (File too large or API limit reached)."
MSG_NETWORK == "Failed to fetch"

\* e.message.includes("Rate Limit") for the messages that occur
messageIncludesRateLimit(m) == m \in {MSG_FF_RATE_LIMIT, MSG_RATE_LIMIT}

\* a parsed JSON body of the contents or blob endpoint: an array, or an
\* object; hasContent is FALSE when the object has no content field
FileBody(c, enc) ==
    [isArray |-> FALSE, hasContent |-> TRUE, content |-> c, encoding |-> enc]
ArrayBody ==
    [isArray |-> TRUE, hasContent |-> FALSE, content |-> <<>>, encoding |-> "none"]
ObjectWithoutContent ==
    [isArray |-> FALSE, hasContent |-> FALSE, content |-> <<>>, encoding |-> "none"]

\* mutant: the content field only has to be present
contentTruthy_present(b) == b.hasContent

\* truthiness of data.content
contentTruthy(b) == b.hasContent /\ b.content # <<>>

FFContent(t) == [kind |-> "content", text |-> t, msg |-> ""]
FFError(m) == [kind |-> "error", text |-> <<>>, msg |-> m]
FFNone == [kind |-> "none", text |-> <<>>, msg |-> ""]

\* !Array.isArray(data) && data.content
contentsAccepts(b) == ~b.isArray /\ contentTruthy(b)

\* data.content && data.encoding === 'base64'
blobAccepts(b) == contentTruthy(b) /\ b.encoding = "base64"

\* what the try block of a strategy does with a response: "return" the
\* decoded text, "throw" a message to its catch clause, or "fall" out of it
\* without a result
strategyTry(r, strategy) ==
    IF ~r.net THEN [step |-> "throw", text |-> <<>>, msg |-> MSG_NETWORK]
    ELSE IF responseOk(r)
    THEN IF ~r.json THEN [step |-> "throw", text |-> <<>>, msg |-> "Unexpected token"]
         ELSE IF (IF strategy = "contents" THEN contentsAccepts(r.body)
                  ELSE blobAccepts(r.body))
         THEN LET d == decodeContent(r.body.content)
              IN  IF d.ok THEN [step |-> "return", text |-> d.text, msg |-> ""]
                  ELSE [step |-> "throw", text |-> <<>>, msg |-> "InvalidCharacterError"]
         ELSE [step |-> "fall", text |-> <<>>, msg |-> ""]
    ELSE IF r.status = 403 \/ r.status = 429
    THEN [step |-> "throw", text |-> <<>>, msg |-> MSG_FF_RATE_LIMIT]
    ELSE [step |-> "fall", text |-> <<>>, msg |-> ""]

\* mutant: the catch clause swallows every exception
catchClause_swallow(t) ==
    IF t.step = "return" THEN FFContent(t.text) ELSE FFNone

\* the end of a strategy: content returned, or its catch clause rethrowing a
\* rate-limit error, or no result (FFNone) and the function goes on
catchClause(t) ==
    IF t.step = "return" THEN FFContent(t.text)
    ELSE IF t.step = "throw" /\ messageIncludesRateLimit(t.msg)
    THEN FFError(t.msg)
    ELSE FFNone

\* Strategy 1: the contents request
contentsStrategy(r) == catchClause(strategyTry(r, "contents"))

\* Strategy 2: the blob request
blobStrategy(r) == catchClause(strategyTry(r, "blob"))

\* mutant: the blob strategy is attempted without a sha too
shaSupplied_always(sha) == TRUE

\* mutant: the blob strategy is never attempted
shaSupplied_never(sha) == FALSE

\* if (sha)
shaSupplied(sha) == sha # <<>>

(***************************************************************************)
(* fetchFileContent as a process: the call issues the contents request,    *)
(* each response runs the function up to its next await                    *)
(***************************************************************************)
B_hi == <<"a", "G", "k", "=", "\n">>
B_invalid == <<"!", "!">>

\* the base64 text of a file that holds the byte order mark only
B_bom == <<"7", "7", "u", "/">>

\* a content field that holds the line break only
B_newline == <<"\n">>

FileBodies ==
    {FileBody(B_hi, "base64"), FileBody(B_hi, "utf-8"), FileBody(B_invalid, "base64"),
     FileBody(<<>>, "base64"), FileBody(<<>>, "none"), FileBody(B_newline, "base64"),
     FileBody(B_bom, "base64"),
     ObjectWithoutContent, ArrayBody}

FFStatuses == {401, 403, 404, 429, 500}

FileResponses ==
    {HttpResponse(200, "", b) : b \in FileBodies}
    \cup {[HttpResponse(200, "", NoBody) EXCEPT !.json = FALSE]}
    \cup {HttpResponse(st, "", NoBody) : st \in FFStatuses}
    \cup {NoResponse}

FFShas == {<<>>, <<"s", "1">>}

\* fetchFileContent(owner, repo, path, ref, sha) up to its first await
FetchFileContentCall ==
    /\ mode = "fetch" /\ ffPc = "idle"
    /\ \E sha \in FFShas : ffSha' = sha
    /\ ffRequests' = <<"contents">>
    /\ ffPc' = "contents"
    /\ UNCHANGED <<mode, tokenVars, viewVars, ffResponses, ffResult, treeVars, parseVars, apiVars, appVars>>

\* the contents request settles: strategy 1 finishes; without a result the
\* blob request is issued when a sha was supplied
ContentsResponse ==
    /\ mode = "fetch" /\ ffPc = "contents"
    /\ \E r \in FileResponses :
        LET out == contentsStrategy(r)
        IN  /\ ffResponses' = Append(ffResponses, r)
            /\ IF out.kind # "none"
               THEN /\ ffResult' = out
                    /\ ffPc' = "done"
                    /\ UNCHANGED ffRequests
               ELSE IF shaSupplied(ffSha)
               THEN /\ ffRequests' = Append(ffRequests, "blob")
                    /\ ffPc' = "blob"
                    /\ UNCHANGED ffResult
               ELSE /\ ffResult' = FFError(MSG_FF_UNAVAILABLE)
                    /\ ffPc' = "done"
                    /\ UNCHANGED ffRequests
    /\ UNCHANGED <<mode, tokenVars, viewVars, ffSha, treeVars, parseVars, apiVars, appVars>>

\* the blob request settles: strategy 2 finishes
BlobResponse ==
    /\ mode = "fetch" /\ ffPc = "blob"
    /\ \E r \in FileResponses :
        LET out == blobStrategy(r)
        IN  /\ ffResponses' = Append(ffResponses, r)
            /\ ffResult' = IF out.kind # "none" THEN out
                           ELSE FFError(MSG_FF_UNAVAILABLE)
            /\ ffPc' = "done"
    /\ UNCHANGED <<mode, tokenVars, viewVars, ffSha, ffRequests, treeVars, parseVars, apiVars, appVars>>

NextFetch == FetchFileContentCall \/ ContentsResponse \/ BlobResponse

InitFetch ==
    /\ mode = "fetch"
    /\ IdleFetch
    /\ IdleTree /\ IdleParse /\ IdleApi /\ IdleApp

SpecFetch == InitFetch /\ [][NextFetch]_vars

(***************************************************************************)
(* Inputs of buildTreeStructure                                            *)
(***************************************************************************)
\* the paths of the entries: root entries, nested ones, one whose parent
\* directory may be missing from the list (a/a/m without a/a)
Paths ==
    {<<"a">>, <<"m">>, <<"z">>,
     <<"a", "/", "a">>, <<"a", "/", "z">>,
     <<"a", "/", "a", "/", "m">>, <<"m", "/", "z">>}

Shas == {"s1"}

TreeEntries == [path : Paths, type : {"blob", "tree"}, sha : Shas]

distinctPaths(s) ==
    \A i, j \in 1..Len(s) : i # j => s[i].path # s[j].path

RECURSIVE EntryLists(_)
EntryLists(n) ==
    IF n = 0 THEN {<<>>}
    ELSE LET shorter == EntryLists(n - 1)
         IN  shorter \cup
             {Append(s, e) : s \in {t \in shorter : Len(t) = n - 1},
                             e \in TreeEntries}

TreeInputs == {s \in EntryLists(MaxEntries) : distinctPaths(s)}

InitTree ==
    /\ mode = "tree"
    /\ input \in TreeInputs
    /\ items = input
    /\ treeOut = <<>>
    /\ treeMap = <<>>
    /\ treeCalled = FALSE
    /\ IdleParse /\ IdleApi /\ IdleFetch /\ IdleApp

\* a call buildTreeStructure(items)
CallBuildTree ==
    /\ mode = "tree"
    /\ ~treeCalled
    /\ items' = sortItems(items)
    /\ treeOut' = buildTreeStructure(items)
    /\ treeMap' = mapOf(items)
    /\ treeCalled' = TRUE
    /\ UNCHANGED <<mode, tokenVars, viewVars, input, parseVars, apiVars, ffVars, appVars>>

NextTree == CallBuildTree

SpecTree == InitTree /\ [][NextTree]_vars

(***************************************************************************)
(* Inputs of parseRepoUrl: a repository reference, a trailing decoration   *)
(* and optional surrounding whitespace.  All letters are lower case.       *)
(***************************************************************************)
S_ownerRepo == <<"o", "/", "r">>
S_fbReactUrl == <<"h", "t", "t", "p", "s", ":", "/", "/", "g", "i", "t", "h", "u", "b", ".", "c", "o", "m", "/", "f", "a", "c", "e", "b", "o", "o", "k", "/", "r", "e", "a", "c", "t">>
S_notAUrl == <<"n", "o", "t", " ", "a", " ", "u", "r", "l">>
S_exampleX == <<"h", "t", "t", "p", "s", ":", "/", "/", "e", "x", "a", "m", "p", "l", "e", ".", "c", "o", "m", "/", "x">>

UrlSchemes == {<<>>, S_httpsPrefix, S_httpPrefix}

UrlHosts == {S_github, <<"n", "o", "t", "g", "i", "t", "h", "u", "b", ".", "c", "o", "m">>, <<"g", "i", "t", "h", "u", "b", ".", "c", "o", "m", ".", "e", "v", "i", "l", ".", "i", "o">>, <<"e", "x", "a", "m", "p", "l", "e", ".", "c", "o", "m">>}

UrlPaths == {<<>>, <<"/", "x">>, <<"/", "o", "/", "r">>, <<"/", "o", "/", "r", "/", "t", "r", "e", "e", "/", "m", "a", "i", "n">>}

MalformedRefs == {S_notAUrl, <<>>, <<"o">>, <<"o", "/", "r", "/", "x">>, <<"a", " ", "b", "/", "c">>, <<"/", "r">>, <<"h", "t", "t", "p", "x">>}

\* the references the decorations are specified for: owner/repo and a forge URL
RepoRefs == {S_ownerRepo, S_fbReactUrl}

UrlBases ==
    RepoRefs \cup MalformedRefs \cup
    {sc \o h \o pa : sc \in UrlSchemes, h \in UrlHosts, pa \in UrlPaths}

Decorations == {<<>>, S_git, <<SLASH>>, S_git \o <<SLASH>>}

Whitespace == {<<>>, <<" ">>}

InitParse ==
    /\ mode = "parse"
    /\ urlBase \in UrlBases
    /\ \E d \in Decorations, w1 \in Whitespace, w2 \in Whitespace :
           urlArg = w1 \o urlBase \o d \o w2
    /\ parseOut = [kind |-> "none", owner |-> <<>>, repo |-> <<>>]
    /\ parseCalled = FALSE
    /\ IdleTree /\ IdleApi /\ IdleFetch /\ IdleApp

\* a call parseRepoUrl(urlArg)
CallParseRepoUrl ==
    /\ mode = "parse"
    /\ ~parseCalled
    /\ parseOut' = parseRepoUrl(urlArg)
    /\ parseCalled' = TRUE
    /\ UNCHANGED <<mode, tokenVars, viewVars, urlBase, urlArg, treeVars, apiVars, ffVars, appVars>>

NextParse == CallParseRepoUrl

SpecParse == InitParse /\ [][NextParse]_vars

(***************************************************************************)
(* The App component (src/unnamed/part_000): repository loading            *)
(***************************************************************************)
MSG_INVALID_URL ==
    "Invalid GitHub URL. Please use \"owner/repo\" format (e.g. facebook/react)"
MSG_BRANCH_NOT_FOUND == "Branch not found"

\* err.message of a plain Error
Message(m) == [msg |-> m, status |-> 0, statusText |-> ""]
\* err.message of what an operation threw
messageOf(out) == [msg |-> out.msg, status |-> out.status, statusText |-> out.statusText]

S_repoA == <<"o", "/", "r">>
S_unparseable == <<"x">>

UrlInputs == {<<>>, S_repoA, S_unparseable}

AppStatuses == {200, 403, 404}

AppResponses(payloads) == ResponsesWith(AppStatuses, {""}, payloads)

\* the specifications in which the handlers of the page run
PageModes == {"app", "load", "settings", "view"}

\* the settings modal is an overlay: while it is open the page under it
\* takes no input (in the settings specification the mount effect runs first)
pageReady == ~showSettingsModal /\ (mode = "settings" => mounted)

\* the payloads the forge answers with: in the specification of the load
\* alone all of them, elsewhere those of one repository (few)
scoped(all, few) == IF mode = "app" THEN all ELSE {x \in few : x \in all}

OneDetails ==
    {[owner |-> [login |-> <<"o">>], name |-> <<"r">>, description |-> "d",
      stargazers_count |-> 1, forks_count |-> 2, default_branch |-> "main"]}
OneBranchLists == {<<>>, <<Branch("main", "c1"), Branch("dev", "c2")>>}
\* the tree of that repository: a directory; on the viewing page two files
\* and a directory
OneTree ==
    IF mode = "view"
    THEN {[tree |-> <<[path |-> <<"z">>, type |-> "blob", sha |-> <<"s", "1">>],
                      [path |-> <<"a">>, type |-> "tree", sha |-> <<"s", "1">>],
                      [path |-> <<"a", "/", "m">>, type |-> "blob",
                       sha |-> <<"s", "1">>]>>,
           truncated |-> FALSE]}
    ELSE {[tree |-> <<[path |-> <<"a">>, type |-> "tree", sha |-> <<"s", "1">>]>>,
           truncated |-> FALSE]}

AnalysisResults ==
    {"generated", "Could not generate analysis.", "Failed to analyze repository structure"}

\* the suspended invocations form a bag: they resume in any order
putIn(bag, x) == bag (+) SetToBag({x})
takeOut(bag, x) == bag (-) SetToBag({x})

\* lastStep after a step that received no branch list
Step(name) == NoStep

\* mutant: the first branch is taken whatever the default branch is
defaultBranchOf_first(branchList, details) == branchList[1]

\* branchList.find(b => b.name === details.default_branch) || branchList[0]
defaultBranchOf(branchList, details) ==
    IF \E k \in 1..Len(branchList) : branchList[k].name = details.default_branch
    THEN branchList[CHOOSE k \in 1..Len(branchList) :
                       /\ branchList[k].name = details.default_branch
                       /\ \A j \in 1..(k - 1) :
                              branchList[j].name # details.default_branch]
    ELSE branchList[1]

\* fetchRepoTree(owner, repo, branchName) up to its await, run by a render
\* whose branches value is seen: the branch is looked up in seen
fetchRepoTreeStart(owner, repo, branchName, seen) ==
    IF \E k \in 1..Len(seen) : seen[k].name = branchName
    THEN LET k == CHOOSE i \in 1..Len(seen) :
                      /\ seen[i].name = branchName
                      /\ \A j \in 1..(i - 1) : seen[j].name # branchName
         IN  /\ appState' = "LOADING_TREE"
             /\ treeFetches' = putIn(treeFetches,
                    [owner |-> owner, repo |-> repo, sha |-> seen[k].commit.sha])
             /\ UNCHANGED errorMsg
    ELSE /\ appState' = "ERROR"
         /\ errorMsg' = <<Message(MSG_BRANCH_NOT_FOUND)>>
         /\ UNCHANGED treeFetches

\* onChange of the repository input; handleFetchRepo is memoized on urlInput,
\* so the render after the change makes the callback anew, over that
\* render's fetchRepoTree and branches
SetUrlInput ==
    /\ mode \in PageModes /\ pageReady
    /\ appState \in {"IDLE", "LOADING_REPO", "ERROR"}
    /\ \E v \in UrlInputs \ {urlInput} : urlInput' = v
    /\ cbBranches' = branches
    /\ lastStep' = Step("setUrlInput")
    /\ UNCHANGED <<appState, errorMsg, repoDetails, branches, selectedBranch,
                   treeData, allItems, aiAnalysis, isAnalyzing, activeTab,
                   selectedFile, fileDoc, loads, treeFetches, analyses>>
    /\ UNCHANGED <<mode, tokenVars, viewVars, treeVars, parseVars, apiVars, ffVars, exportVars>>

\* the invocations suspended at an await
inFlight == BagCardinality(loads) + BagCardinality(treeFetches) + analyses

\* with the suspended handleFileSelect invocations
suspended == inFlight + BagCardinality(selections)

\* how many invocations the model lets be suspended at one time
inFlightCap == IF mode = "view" THEN MaxPending ELSE MaxInFlight

\* handleFetchRepo up to its first await
handleFetchRepoStart ==
    IF trim(urlInput) = <<>>
    THEN UNCHANGED <<uiVars, loads>>
    ELSE LET parsed == parseRepoUrl(urlInput)
         IN  IF parsed.kind = "null"
             THEN /\ errorMsg' = <<Message(MSG_INVALID_URL)>>
                  /\ UNCHANGED <<urlInput, appState, repoDetails, branches,
                                 selectedBranch, treeData, allItems, aiAnalysis,
                                 isAnalyzing, activeTab, selectedFile, fileDoc,
                                 loads>>
             ELSE /\ suspended < inFlightCap
                  /\ appState' = "LOADING_REPO"
                  /\ errorMsg' = <<>>
                  /\ repoDetails' = <<>>
                  /\ branches' = <<>>
                  /\ treeData' = <<>>
                  /\ allItems' = <<>>
                  /\ aiAnalysis' = <<>>
                  /\ fileDoc' = <<>>
                  /\ selectedFile' = <<>>
                  /\ activeTab' = "overview"
                  /\ loads' = putIn(loads,
                         [pc |-> "details", owner |-> parsed.owner,
                          repo |-> parsed.repo, details |-> <<>>,
                          seen |-> cbBranches])
                  /\ UNCHANGED <<urlInput, selectedBranch, isAnalyzing>>

\* the repository form is submitted
SubmitRepoForm ==
    /\ mode \in PageModes /\ pageReady
    /\ appState \in {"IDLE", "ERROR"}
    /\ handleFetchRepoStart
    /\ lastStep' = Step("handleFetchRepo")
    /\ UNCHANGED <<cbBranches, treeFetches, analyses>>
    /\ UNCHANGED <<mode, tokenVars, viewVars, treeVars, parseVars, apiVars, ffVars, exportVars>>

\* mutant: the catch clause drops the load and leaves the state as it is
loadFailed_keepsLoading(l, out) ==
    /\ UNCHANGED <<appState, errorMsg>>
    /\ loads' = takeOut(loads, l)

\* the catch clause of handleFetchRepo
loadFailed(l, out) ==
    /\ appState' = "ERROR"
    /\ errorMsg' = <<messageOf(out)>>
    /\ loads' = takeOut(loads, l)

\* the response to GET /repos/{owner}/{repo} of a suspended handleFetchRepo
DetailsResponse ==
    /\ mode \in PageModes
    /\ \E l \in BagToSet(loads) :
        /\ l.pc = "details"
        /\ \E r \in AppResponses(scoped(DetailsPayloadsFor(l.owner, l.repo), OneDetails)) :
            LET out == fetchRepoDetails(r)
            IN  IF out.kind = "error"
                THEN /\ loadFailed(l, out)
                     /\ UNCHANGED repoDetails
                ELSE /\ repoDetails' = <<out.value>>
                     /\ loads' = putIn(takeOut(loads, l),
                                       [l EXCEPT !.pc = "branches",
                                                 !.details = <<out.value>>])
                     /\ UNCHANGED <<appState, errorMsg>>
    /\ lastStep' = Step("detailsResponse")
    /\ UNCHANGED <<urlInput, branches, selectedBranch, treeData, allItems,
                   aiAnalysis, isAnalyzing, activeTab, selectedFile, fileDoc,
                   cbBranches, treeFetches, analyses>>
    /\ UNCHANGED <<mode, tokenVars, viewVars, treeVars, parseVars, apiVars, ffVars, exportVars>>

\* the response to GET .../branches of a suspended handleFetchRepo, and the
\* rest of the handler: the branch is selected and fetchRepoTree is called
BranchesResponse ==
    /\ mode \in PageModes
    /\ \E l \in BagToSet(loads) :
        /\ l.pc = "branches"
        /\ \E r \in AppResponses(scoped(BranchPayloads, OneBranchLists)) :
            LET out == fetchBranches(r)
                details == l.details[1]
            IN  IF out.kind = "error"
                THEN /\ loadFailed(l, out)
                     /\ lastStep' = Step("branchesFailed")
                     /\ UNCHANGED <<branches, selectedBranch, treeFetches>>
                ELSE /\ branches' = out.value
                     /\ loads' = takeOut(loads, l)
                     /\ lastStep' = [op |-> "branchesResponse",
                                     defaultBranch |-> details.default_branch,
                                     branchList |-> out.value]
                     /\ IF Len(out.value) > 0
                        THEN LET defaultB == defaultBranchOf(out.value, details)
                             IN  /\ selectedBranch' = defaultB.name
                                 /\ fetchRepoTreeStart(l.owner, l.repo,
                                                       defaultB.name, l.seen)
                        ELSE /\ appState' = "SELECTING_BRANCH"
                             /\ UNCHANGED <<selectedBranch, errorMsg, treeFetches>>
    /\ UNCHANGED <<urlInput, repoDetails, treeData, allItems, aiAnalysis,
                   isAnalyzing, activeTab, selectedFile, fileDoc, cbBranches,
                   analyses>>
    /\ UNCHANGED <<mode, tokenVars, viewVars, treeVars, parseVars, apiVars, ffVars, exportVars>>

\* the response to the tree request of a suspended fetchRepoTree, and the
\* rest of fetchRepoTree; buildTreeStructure sorts rawTree, the array that
\* setAllItems was given
TreeResponse ==
    /\ mode \in PageModes
    /\ \E f \in BagToSet(treeFetches) :
        /\ treeFetches' = takeOut(treeFetches, f)
        /\ \E r \in AppResponses(scoped(TreePayloads, OneTree)) :
            LET out == fetchTree(r)
            IN  IF out.kind = "error"
                THEN /\ appState' = "ERROR"
                     /\ errorMsg' = <<messageOf(out)>>
                     /\ UNCHANGED <<allItems, treeData, isAnalyzing, analyses, treeOf>>
                ELSE /\ allItems' = sortItems(out.value)
                     /\ treeData' = buildTreeStructure(out.value)
                     /\ treeOf' = <<f.sha>>
                     /\ appState' = "VIEWING"
                     /\ isAnalyzing' = TRUE
                     /\ analyses' = analyses + 1
                     /\ UNCHANGED errorMsg
    /\ lastStep' = Step("treeResponse")
    /\ UNCHANGED <<urlInput, repoDetails, branches, selectedBranch, aiAnalysis,
                   activeTab, selectedFile, fileDoc, cbBranches, loads>>
    /\ UNCHANGED <<mode, tokenVars, isGeneratingDoc, selections, treeVars, parseVars, apiVars, ffVars, exportVars>>

\* analyzeRepoArchitecture settles (it never rejects)
AnalysisDone ==
    /\ mode \in PageModes
    /\ analyses > 0
    /\ analyses' = analyses - 1
    /\ \E a \in scoped(AnalysisResults, {"generated"}) : aiAnalysis' = <<a>>
    /\ isAnalyzing' = FALSE
    /\ lastStep' = Step("analysisDone")
    /\ UNCHANGED <<urlInput, appState, errorMsg, repoDetails, branches,
                   selectedBranch, treeData, allItems, activeTab, selectedFile,
                   fileDoc, cbBranches, loads, treeFetches>>
    /\ UNCHANGED <<mode, tokenVars, viewVars, treeVars, parseVars, apiVars, ffVars, exportVars>>

\* handleBranchChange: the branch select is rendered with the repository
\* info, outside the search page, and offers the names of branches
HandleBranchChange ==
    /\ mode \in PageModes /\ pageReady
    /\ appState \in {"SELECTING_BRANCH", "LOADING_TREE", "VIEWING"}
    /\ repoDetails # <<>>
    /\ suspended < inFlightCap
    /\ \E k \in 1..Len(branches) :
        /\ branches[k].name # selectedBranch
        /\ selectedBranch' = branches[k].name
        /\ fetchRepoTreeStart(repoDetails[1].owner, repoDetails[1].name,
                              branches[k].name, branches)
    /\ lastStep' = Step("handleBranchChange")
    /\ UNCHANGED <<urlInput, repoDetails, branches, treeData, allItems,
                   aiAnalysis, isAnalyzing, activeTab, selectedFile, fileDoc,
                   cbBranches, loads, analyses>>
    /\ UNCHANGED <<mode, tokenVars, viewVars, treeVars, parseVars, apiVars, ffVars, exportVars>>

\* the header logo or "Analyze another repository": setAppState(IDLE)
BackToIdle ==
    /\ mode \in PageModes /\ pageReady
    /\ appState # "IDLE"
    /\ appState' = "IDLE"
    /\ lastStep' = Step("backToIdle")
    /\ UNCHANGED <<urlInput, errorMsg, repoDetails, branches, selectedBranch,
                   treeData, allItems, aiAnalysis, isAnalyzing, activeTab,
                   selectedFile, fileDoc, cbBranches, loads, treeFetches,
                   analyses>>
    /\ UNCHANGED <<mode, tokenVars, viewVars, treeVars, parseVars, apiVars, ffVars, exportVars>>

InitApp ==
    /\ mode = "app"
    /\ IdleApp
    /\ IdleTree /\ IdleParse /\ IdleApi /\ IdleFetch

NextApp ==
    \/ SetUrlInput
    \/ SubmitRepoForm
    \/ DetailsResponse
    \/ BranchesResponse
    \/ TreeResponse
    \/ AnalysisDone
    \/ HandleBranchChange
    \/ BackToIdle

SpecApp == InitApp /\ [][NextApp]_vars

InitLoad ==
    /\ mode = "load"
    /\ IdleApp
    /\ IdleTree /\ IdleParse /\ IdleApi /\ IdleFetch

SpecLoad == InitLoad /\ [][NextApp]_vars

\* every request gets its response or fails, and every gateway call settles:
\* a suspended invocation is eventually resumed
SpecLoadFair ==
    /\ SpecLoad
    /\ WF_vars(DetailsResponse)
    /\ WF_vars(BranchesResponse)
    /\ WF_vars(TreeResponse)
    /\ WF_vars(AnalysisDone)

(***************************************************************************)
(* Bulk export (src/unnamed/part_000): handleOpenExport, toggleExportFile, *)
(* handleExportDocs                                                        *)
(***************************************************************************)
interestingExtensions ==
    {<<".", "t", "s">>, <<".", "t", "s", "x">>, <<".", "j", "s">>,
     <<".", "j", "s", "x">>, <<".", "p", "y">>, <<".", "j", "a", "v", "a">>,
     <<".", "g", "o">>, <<".", "r", "b">>, <<".", "p", "h", "p">>, <<".", "c">>,
     <<".", "c", "p", "p">>, <<".", "h">>, <<".", "c", "s">>, <<".", "r", "s">>,
     <<".", "j", "s", "o", "n">>, <<".", "m", "d">>, <<".", "h", "t", "m", "l">>,
     <<".", "c", "s", "s">>}

\* .slice(0, 30)
MaxCandidates == 30

sliceTo(s, n) == SubSeq(s, 1, IF Len(s) < n THEN Len(s) ELSE n)

isInteresting(item) ==
    item.type = "blob" /\ \E ext \in interestingExtensions : endsWith(item.path, ext)

\* the candidates handleOpenExport computes from allItems
candidatesOf(list) ==
    LET kept == sliceTo(SelectSeq(list, isInteresting), MaxCandidates)
    IN  [i \in 1..Len(kept) |->
            [path |-> kept[i].path, sha |-> kept[i].sha, selected |-> TRUE]]

\* prev.map(c => c.path === path ? { ...c, selected: !c.selected } : c)
toggled(cands, path) ==
    [i \in 1..Len(cands) |->
        IF cands[i].path = path THEN [cands[i] EXCEPT !.selected = ~@]
        ELSE cands[i]]

\* item.path.replace(/\//g, '_')
replaceSlashes(p) == [i \in 1..Len(p) |-> IF p[i] = "/" THEN "_" ELSE p[i]]

S_md == <<".", "m", "d">>
S_html == <<".", "h", "t", "m", "l">>
S_docs == <<"-", "d", "o", "c", "s">>
S_documentationZip ==
    <<"-", "d", "o", "c", "u", "m", "e", "n", "t", "a", "t", "i", "o", "n",
      ".", "z", "i", "p">>
S_compressing ==
    <<"C", "o", "m", "p", "r", "e", "s", "s", "i", "n", "g", " ", "Z", "I", "P",
      ".", ".", ".">>
MSG_SELECT_ONE == "Please select at least one file to export."

\* wrapInHtml(title, content): the page around the rendered markdown
wrapInHtml(title, content) == [html |-> TRUE, title |-> title, md |-> content]

\* the name and the content of the archive entry of a documented file
archiveEntry(item, docMd, format) ==
    IF format = "html"
    THEN [name |-> replaceSlashes(item.path) \o S_html,
          content |-> wrapInHtml(item.path, docMd)]
    ELSE [name |-> replaceSlashes(item.path) \o S_md,
          content |-> [html |-> FALSE, title |-> <<>>, md |-> docMd]]

\* rootFolder.file(name, content): an entry of that name is replaced
zipFile(zip, e) ==
    IF \E k \in 1..Len(zip) : zip[k].name = e.name
    THEN [k \in 1..Len(zip) |-> IF zip[k].name = e.name THEN e ELSE zip[k]]
    ELSE Append(zip, e)

\* what generateCodeDocumentation resolves to (it never rejects)
DocResults ==
    {"doc", "Could not generate documentation.", "Failed to generate documentation"}

Request(kind, i) == [kind |-> kind, i |-> i]

\* the requests of a file's fetch-then-generate pair
PairKinds == {"contents", "blob", "generate"}

\* the variables the export handlers leave alone
notExportVars == <<mode, tokenVars, viewVars, treeVars, parseVars, apiVars, ffVars, uiVars, procVars>>

\* "Export Docs" in the header, shown while appState is VIEWING; the open
\* modal covers the page
HandleOpenExport ==
    /\ mode = "export"
    /\ appState = "VIEWING" /\ ~showExportModal
    /\ exportCandidates' = candidatesOf(allItems)
    /\ showExportModal' = TRUE
    /\ UNCHANGED <<exportFormat, isExporting, exportProgress, exPc, exFiles, exFormat, exI,
                   exContent, exInFlight, exFinished, exFailed, zipFiles, exSaved, exAlert>>
    /\ UNCHANGED notExportVars

\* a click on a candidate of the modal (rendered while no export runs)
ToggleExportFile ==
    /\ mode = "export"
    /\ showExportModal /\ ~isExporting
    /\ \E k \in 1..Len(exportCandidates) :
        exportCandidates' = toggled(exportCandidates, exportCandidates[k].path)
    /\ UNCHANGED <<showExportModal, exportFormat, isExporting, exportProgress, exPc,
                   exFiles, exFormat, exI, exContent, exInFlight, exFinished, exFailed, zipFiles,
                   exSaved, exAlert>>
    /\ UNCHANGED notExportVars

\* the format buttons of the modal
SetExportFormat ==
    /\ mode = "export"
    /\ showExportModal /\ ~isExporting
    /\ \E f \in {"markdown", "html"} \ {exportFormat} : exportFormat' = f
    /\ UNCHANGED <<showExportModal, isExporting, exportProgress, exportCandidates,
                   exPc, exFiles, exFormat, exI, exContent, exInFlight, exFinished, exFailed, zipFiles,
                   exSaved, exAlert>>
    /\ UNCHANGED notExportVars

\* the close button: !isExporting && setShowExportModal(false)
CloseExportModal ==
    /\ mode = "export"
    /\ showExportModal /\ ~isExporting
    /\ showExportModal' = FALSE
    /\ UNCHANGED <<exportFormat, isExporting, exportProgress, exportCandidates,
                   exPc, exFiles, exFormat, exI, exContent, exInFlight, exFinished, exFailed, zipFiles,
                   exSaved, exAlert>>
    /\ UNCHANGED notExportVars

\* mutant: the progress counts the files done so far
progressAt_filesDone(files, i) ==
    [current |-> i, total |-> Len(files), currentFile |-> files[i + 1].path]

\* setExportProgress at the head of iteration i (0-based)
progressAt(files, i) ==
    [current |-> i + 1, total |-> Len(files), currentFile |-> files[i + 1].path]

\* the for loop arrives at i (0-based) with the requests pending still in
\* flight: the progress is set and the contents request of files[i] is
\* issued, or, past the last file, the archive is generated
loopAt(files, i, pending) ==
    IF i < Len(files)
    THEN /\ exI' = i
         /\ exportProgress' = progressAt(files, i)
         /\ exInFlight' = pending \cup {Request("contents", i + 1)}
         /\ exPc' = "contents"
    ELSE /\ exI' = i
         /\ exportProgress' = [exportProgress EXCEPT !.currentFile = S_compressing]
         /\ exInFlight' = pending \cup {Request("zip", 0)}
         /\ exPc' = "zip"

\* "Generate & Download ZIP": handleExportDocs up to its first await
HandleExportDocs ==
    /\ mode = "export"
    /\ showExportModal /\ ~isExporting
    /\ LET filesToProcess == SelectSeq(exportCandidates, LAMBDA c : c.selected)
       IN  IF repoDetails = <<>> \/ Len(branches) = 0
           THEN /\ exAlert' = <<>>
                /\ UNCHANGED <<isExporting, exportProgress, exPc, exFiles, exFormat, exI,
                               exInFlight>>
           ELSE IF Len(filesToProcess) = 0
           THEN /\ exAlert' = <<MSG_SELECT_ONE>>
                /\ UNCHANGED <<isExporting, exportProgress, exPc, exFiles, exFormat, exI,
                               exInFlight>>
           ELSE /\ isExporting' = TRUE
                /\ exFiles' = filesToProcess
                /\ exFormat' = exportFormat
                /\ exAlert' = <<>>
                /\ loopAt(filesToProcess, 0, {})
    /\ exContent' = <<>>
    /\ exFinished' = {}
    /\ exFailed' = {}
    /\ zipFiles' = <<>>
    /\ exSaved' = <<>>
    /\ UNCHANGED <<showExportModal, exportFormat, exportCandidates>>
    /\ UNCHANGED notExportVars

\* mutant: the inner catch clause passes the error on
innerCatch_rethrow(err) == "rethrow"

\* catch (err) { console.error(...) } inside the loop: the file is skipped
innerCatch(err) == "skip"

\* the body of iteration exI throws err, pending being still in flight: the
\* inner catch clause, else the outer one (alert) and the finally clause
iterationThrows(err, pending) ==
    /\ exFailed' = exFailed \cup {exI + 1}
    /\ IF innerCatch(err) = "skip"
       THEN /\ exFinished' = exFinished \cup {exI + 1}
            /\ loopAt(exFiles, exI + 1, pending)
            /\ UNCHANGED <<isExporting, exAlert>>
       ELSE /\ exAlert' = <<err>>
            /\ isExporting' = FALSE
            /\ exPc' = "idle"
            /\ exInFlight' = pending
            /\ UNCHANGED <<exI, exportProgress, exFinished>>

\* mutant: generateCodeDocumentation is called without await
awaited_notGenerate(call) == call # "generate"

\* the calls of the loop body are awaited
awaited(call) == TRUE

\* fetchFileContent returned text for files[exI]: generateCodeDocumentation
\* is called
contentFetched(text, pending) ==
    /\ exContent' = <<text>>
    /\ IF awaited("generate")
       THEN /\ exInFlight' = pending \cup {Request("generate", exI + 1)}
            /\ exPc' = "generate"
            /\ UNCHANGED zipFiles
       ELSE /\ exInFlight' = pending \cup {Request("generate", exI + 1),
                                           Request("delay", exI + 1)}
            /\ exPc' = "delay"
            /\ zipFiles' = zipFile(zipFiles,
                   archiveEntry(exFiles[exI + 1], "[object Promise]", exFormat))
    /\ UNCHANGED <<isExporting, exportProgress, exI, exFinished, exFailed, exAlert>>

\* the contents request of fetchFileContent settles
ExportContentsResponse ==
    /\ mode = "export" /\ exPc = "contents"
    /\ LET req == Request("contents", exI + 1)
           pending == exInFlight \ {req}
       IN  /\ req \in exInFlight
           /\ \E r \in FileResponses :
               LET out == contentsStrategy(r)
               IN  IF out.kind = "content"
                   THEN contentFetched(out.text, pending)
                   ELSE IF out.kind = "error"
                   THEN /\ iterationThrows(out.msg, pending)
                        /\ UNCHANGED <<exContent, zipFiles>>
                   ELSE IF shaSupplied(exFiles[exI + 1].sha)
                   THEN /\ exInFlight' = pending \cup {Request("blob", exI + 1)}
                        /\ exPc' = "blob"
                        /\ UNCHANGED <<isExporting, exportProgress, exI, exContent,
                                       exFinished, exFailed, zipFiles, exAlert>>
                   ELSE /\ iterationThrows(MSG_FF_UNAVAILABLE, pending)
                        /\ UNCHANGED <<exContent, zipFiles>>
    /\ UNCHANGED <<showExportModal, exportFormat, exportCandidates, exFiles, exFormat, exSaved>>
    /\ UNCHANGED notExportVars

\* the blob request of fetchFileContent settles
ExportBlobResponse ==
    /\ mode = "export" /\ exPc = "blob"
    /\ LET req == Request("blob", exI + 1)
           pending == exInFlight \ {req}
       IN  /\ req \in exInFlight
           /\ \E r \in FileResponses :
               LET out == blobStrategy(r)
               IN  IF out.kind = "content"
                   THEN contentFetched(out.text, pending)
                   ELSE /\ iterationThrows(IF out.kind = "error" THEN out.msg
                                           ELSE MSG_FF_UNAVAILABLE, pending)
                        /\ UNCHANGED <<exContent, zipFiles>>
    /\ UNCHANGED <<showExportModal, exportFormat, exportCandidates, exFiles, exFormat, exSaved>>
    /\ UNCHANGED notExportVars

\* generateCodeDocumentation settles: the entry is put into the folder and
\* the 100 ms delay starts
ExportDocGenerated ==
    /\ mode = "export"
    /\ \E req \in exInFlight :
        /\ req.kind = "generate"
        /\ IF exPc = "generate" /\ req.i = exI + 1
           THEN /\ \E d \in DocResults :
                    zipFiles' = zipFile(zipFiles,
                        archiveEntry(exFiles[exI + 1], d, exFormat))
                /\ exInFlight' = (exInFlight \ {req}) \cup {Request("delay", exI + 1)}
                /\ exFinished' = exFinished \cup {exI + 1}
                /\ exPc' = "delay"
           ELSE /\ exInFlight' = exInFlight \ {req}
                /\ UNCHANGED <<zipFiles, exFinished, exPc>>
    /\ UNCHANGED <<showExportModal, exportFormat, isExporting, exportProgress,
                   exportCandidates, exFiles, exFormat, exI, exContent, exFailed, exSaved,
                   exAlert>>
    /\ UNCHANGED notExportVars

\* the delay after a documented file elapses: the next iteration
ExportDelayElapsed ==
    /\ mode = "export" /\ exPc = "delay"
    /\ Request("delay", exI + 1) \in exInFlight
    /\ loopAt(exFiles, exI + 1, exInFlight \ {Request("delay", exI + 1)})
    /\ UNCHANGED <<showExportModal, exportFormat, isExporting, exportCandidates,
                   exFiles, exFormat, exContent, exFinished, exFailed, zipFiles, exSaved, exAlert>>
    /\ UNCHANGED notExportVars

\* zip.generateAsync settles: saveBlob, the modal is closed, finally
ExportZipGenerated ==
    /\ mode = "export" /\ exPc = "zip"
    /\ Request("zip", 0) \in exInFlight
    /\ exInFlight' = exInFlight \ {Request("zip", 0)}
    /\ exSaved' = <<[filename |-> repoDetails[1].name \o S_documentationZip,
                     folder |-> repoDetails[1].name \o S_docs,
                     entries |-> zipFiles]>>
    /\ showExportModal' = FALSE
    /\ isExporting' = FALSE
    /\ exPc' = "idle"
    /\ UNCHANGED <<exportFormat, exportProgress, exportCandidates, exFiles, exFormat, exI,
                   exContent, exFinished, exFailed, zipFiles, exAlert>>
    /\ UNCHANGED notExportVars

\* entry lists shown in VIEWING: source files at the root and in a
\* directory, two paths that differ in '/' and '_' only, a text file
P_a_ts == <<"a", ".", "t", "s">>
P_d == <<"d">>
P_d_b_ts == <<"d", "/", "b", ".", "t", "s">>
P_d_b_ts_flat == <<"d", "_", "b", ".", "t", "s">>
P_z_txt == <<"z", ".", "t", "x", "t">>

ExportEntries ==
    {[path |-> P_a_ts, type |-> "blob", sha |-> <<"s", "1">>],
     [path |-> P_d, type |-> "tree", sha |-> <<"s", "2">>],
     [path |-> P_d_b_ts, type |-> "blob", sha |-> <<"s", "3">>],
     [path |-> P_d_b_ts_flat, type |-> "blob", sha |-> <<"s", "4">>],
     [path |-> P_z_txt, type |-> "blob", sha |-> <<"s", "5">>]}

RECURSIVE ExportLists(_)
ExportLists(n) ==
    IF n = 0 THEN {<<>>}
    ELSE LET shorter == ExportLists(n - 1)
         IN  shorter \cup
             {Append(s, e) : s \in {t \in shorter : Len(t) = n - 1},
                             e \in ExportEntries}

\* allItems is the array buildTreeStructure has sorted
ExportItemLists ==
    {sortItems(s) : s \in {t \in ExportLists(MaxEntries) : distinctPaths(t)}}

\* VIEWING is reached by a tree response; a load started meanwhile has reset
\* repoDetails and branches, and may have set repoDetails again
InitExport ==
    /\ mode = "export"
    /\ IdleTree /\ IdleParse /\ IdleApi /\ IdleFetch
    /\ IdleToken /\ IdleView
    /\ IdleExport
    /\ urlInput = S_repoA
    /\ appState = "VIEWING"
    /\ errorMsg = <<>>
    /\ \E d \in DetailsPayloadsFor(<<"o">>, <<"r">>) :
          \E r \in {HttpResponse(200, "", d)} :
              \/ repoDetails = <<>> /\ branches = <<>>
              \/ repoDetails = <<fetchRepoDetails(r).value>> /\ branches = <<>>
              \/ /\ repoDetails = <<fetchRepoDetails(r).value>>
                 /\ branches = <<Branch("main", "c1"), Branch("dev", "c2")>>
    /\ selectedBranch = "main"
    /\ allItems \in ExportItemLists
    /\ treeData = buildTreeStructure(allItems)
    /\ aiAnalysis = <<"generated">>
    /\ isAnalyzing = FALSE
    /\ activeTab = "overview"
    /\ selectedFile = <<>>
    /\ fileDoc = <<>>
    /\ cbBranches = <<>>
    /\ loads = EmptyBag
    /\ treeFetches = EmptyBag
    /\ analyses = 0
    /\ lastStep = NoStep

NextExport ==
    \/ HandleOpenExport
    \/ ToggleExportFile
    \/ SetExportFormat
    \/ CloseExportModal
    \/ HandleExportDocs
    \/ ExportContentsResponse
    \/ ExportBlobResponse
    \/ ExportDocGenerated
    \/ ExportDelayElapsed
    \/ ExportZipGenerated

SpecExport == InitExport /\ [][NextExport]_vars

(***************************************************************************)
(* Properties of buildTreeStructure                                        *)
(***************************************************************************)
RECURSIVE nodePaths(_)
\* the paths of all nodes reachable from the list of nodes l, in preorder
nodePaths(l) ==
    IF l = <<>> THEN <<>>
    ELSE <<Head(l).path>> \o nodePaths(Head(l).children) \o nodePaths(Tail(l))

occurrences(l, p) ==
    Cardinality({i \in 1..Len(nodePaths(l)) : nodePaths(l)[i] = p})

RECURSIVE siblingLists(_)
\* the root list and the children list of every directory node below it
siblingLists(l) ==
    {l} \cup UNION {siblingLists(l[i].children) :
                        i \in {j \in 1..Len(l) : l[j].hasChildren}}

\* directories before files, ascending by full path within a type
siblingsOrdered(l) ==
    \A i, j \in 1..Len(l) :
        i < j =>
            \/ l[i].type = "tree" /\ l[j].type = "blob"
            \/ l[i].type = l[j].type /\ localeCompare(l[i].path, l[j].path) < 0

permutationsOf(s) ==
    {[i \in 1..Len(s) |-> s[f[i]]] :
        f \in {g \in [1..Len(s) -> 1..Len(s)] :
                  \A i, j \in 1..Len(s) : i # j => g[i] # g[j]}}

entry(p, t) == [path |-> p, type |-> t, sha |-> "s1"]

\* C1: once buildTreeStructure has returned, every entry's path is the path
\* of exactly one node reachable from the returned roots (nothing lost,
\* nothing duplicated), also when an entry's parent path is listed as a blob.
C1_EveryEntryExactlyOnce ==
    treeCalled =>
        \A i \in 1..Len(input) : occurrences(treeOut, input[i].path) = 1

\* C2: the returned forest does not depend on the order of the input: every
\* permutation of the entries gives the forest that was returned.
C2_OrderIndependent ==
    treeCalled =>
        \A q \in permutationsOf(input) : buildTreeStructure(q) = treeOut

C2_Witness ==
    /\ treeCalled
    /\ Len(input) = MaxEntries
    /\ input # sortItems(input)
    /\ \E i \in 1..Len(treeOut) : Len(treeOut[i].children) > 0

\* C3: the root list and every directory's children list are ordered
\* directories first and ascending by full path within a type; the entries
\* z (blob), a (tree), m (blob) give the root order a, m, z.
C3_SiblingsOrdered ==
    treeCalled =>
        /\ \A l \in siblingLists(treeOut) : siblingsOrdered(l)
        /\ input = <<entry(<<"z">>, "blob"), entry(<<"a">>, "tree"),
                     entry(<<"m">>, "blob")>>
              => nodePaths(treeOut) = <<<<"a">>, <<"m">>, <<"z">>>>

C3_Witness ==
    /\ treeCalled
    /\ input = <<entry(<<"z">>, "blob"), entry(<<"a">>, "tree"),
                 entry(<<"m">>, "blob")>>
    /\ Len(treeOut) = 3

(***************************************************************************)
(* Properties of parseRepoUrl                                              *)
(***************************************************************************)
\* the input gets as far as the URL constructor (form 2)
handledAsUrl(inp) ==
    LET url == preprocess(inp)
    IN  /\ ~simplePattern(url)
        /\ ~(/\ ~startsWith(url, S_http)
             /\ ~includes(url, S_github)
             /\ Len(split(url, SLASH)) = 2)

urlObjOf(inp) == newURL(urlForConstructor(preprocess(inp)))

\* C6: for a reference r that parses to a pair (owner/repo or a forge URL),
\* r, r.git, r/ and r.git/ with optional surrounding whitespace all parse
\* to the pair of r.
C6_DecorationsNormalised ==
    (parseCalled /\ urlBase \in RepoRefs /\ parseRepoUrl(urlBase).kind = "pair")
        => parseOut = parseRepoUrl(urlBase)

\* C7: parseRepoUrl never throws: it returns a pair or null, and null for
\* "not a url", "" and "https://example.com/x".
C7_NeverThrows ==
    parseCalled =>
        /\ parseOut.kind \in {"pair", "null"}
        /\ urlArg \in {S_notAUrl, <<>>, S_exampleX} => parseOut = Null

C7_Witness ==
    /\ parseCalled
    /\ urlArg = S_notAUrl
    /\ ~urlObjOf(urlArg).ok
    /\ parseOut = Null

\* C8: an input handled as a URL whose hostname is not github.com parses to
\* null, also when the hostname contains the text github.com.
C8_ForeignHostIsNull ==
    (/\ parseCalled
     /\ handledAsUrl(urlArg)
     /\ urlObjOf(urlArg).ok
     /\ urlObjOf(urlArg).hostname # S_github)
        => parseOut = Null

(***************************************************************************)
(* Properties of fetchFileContent                                          *)
(***************************************************************************)
rateLimited(r) == r.net /\ (r.status = 403 \/ r.status = 429)

arrayPayload(r) == r.net /\ r.status >= 200 /\ r.status <= 299 /\ r.json /\ r.body.isArray

\* C4: a response with status 403 or 429 to either request ends the
\* operation with the rate-limit error, and no request is issued after it
\* (no blob request after a rate-limited contents request, sha or not).
C4_RateLimitShortCircuits ==
    \A i \in 1..Len(ffResponses) :
        rateLimited(ffResponses[i]) =>
            /\ ffPc = "done"
            /\ ffResult = FFError(MSG_FF_RATE_LIMIT)
            /\ Len(ffRequests) = i

C4_Witness ==
    /\ ffSha # <<>>
    /\ Len(ffResponses) = 1
    /\ rateLimited(ffResponses[1])
    /\ ffPc = "done"

\* C5: a 2xx contents response with an array payload is not returned as
\* content: the blob request is issued next when a sha was supplied, and any
\* content returned afterwards is the decoded blob payload.
C5_ArrayIsNoContent ==
    (Len(ffResponses) >= 1 /\ arrayPayload(ffResponses[1])) =>
        /\ ffSha # <<>> => ffRequests = <<"contents", "blob">>
        /\ ffSha = <<>> => ffRequests = <<"contents">> /\ ffResult.kind = "error"
        /\ Len(ffResponses) = 1 => ffResult.kind # "content"
        /\ ffResult.kind = "content" =>
              /\ Len(ffResponses) = 2
              /\ ffResult.text = decodeContent(ffResponses[2].body.content).text

C5_Witness ==
    /\ Len(ffResponses) = 2
    /\ arrayPayload(ffResponses[1])
    /\ ffSha # <<>>
    /\ ffResult.kind = "content"
    /\ ffResult.text = <<104, 105>>

(***************************************************************************)
(* Properties of the response classification                               *)
(***************************************************************************)
\* the payload an operation returns for the parsed body b
payloadOf(op, b) ==
    CASE op = "fetchRepoDetails" ->
             [owner |-> b.owner.login, name |-> b.name,
              description |-> b.description, stars |-> b.stargazers_count,
              forks |-> b.forks_count, default_branch |-> b.default_branch]
      [] op = "fetchBranches" -> b
      [] op = "fetchTree" -> b.tree

\* C10: for fetchRepoDetails, fetchBranches and fetchTree every status has
\* exactly one outcome: 2xx the payload, 403/429 the rate-limit error, 404
\* not-found-or-private, 401 bad-credentials, any other status the generic
\* error with the status and the status text.
C10_StatusClassification ==
    apiOp # "none" =>
        IF apiResp.status \in 200..299
        THEN /\ apiOut.kind = "ok"
             /\ apiOut.value = payloadOf(apiOp, apiResp.body)
        ELSE /\ apiOut.kind = "error"
             /\ apiOut.msg =
                   (IF apiResp.status \in {403, 429} THEN MSG_RATE_LIMIT
                    ELSE IF apiResp.status = 404 THEN MSG_NOT_FOUND
                    ELSE IF apiResp.status = 401 THEN MSG_BAD_CREDENTIALS
                    ELSE MSG_API_ERROR)
             /\ apiResp.status \notin {401, 403, 404, 429} =>
                   /\ apiOut.status = apiResp.status
                   /\ apiOut.statusText = apiResp.statusText

C10_Witness ==
    /\ apiOp = "fetchTree"
    /\ apiResp.status = 429
    /\ apiOut.kind = "error"
    /\ apiOut.msg = MSG_RATE_LIMIT

(***************************************************************************)
(* Properties of the App component                                         *)
(***************************************************************************)
hasBranchNamed(list, n) == \E k \in 1..Len(list) : list[k].name = n

\* C9: when handleFetchRepo has received the summary and a non-empty branch
\* list, the selected branch is the summary's default branch if a branch of
\* that name is in the list, and the first branch of the list otherwise.
C9_DefaultBranchSelected ==
    (lastStep.op = "branchesResponse" /\ lastStep.branchList # <<>>) =>
        selectedBranch =
            (IF hasBranchNamed(lastStep.branchList, lastStep.defaultBranch)
             THEN lastStep.defaultBranch
             ELSE lastStep.branchList[1].name)

C9_Witness ==
    /\ lastStep.op = "branchesResponse"
    /\ Len(lastStep.branchList) = 2
    /\ lastStep.branchList[1].name # lastStep.defaultBranch
    /\ selectedBranch = lastStep.defaultBranch

\* the response after which fetchFileContent ended
lastFileResponse == ffResponses[Len(ffResponses)]

\* C11: the response classification applies to the requests of
\* fetchFileContent too: when the operation ends on a 401 response it fails
\* with the bad-credentials error, and on a 404 response with the
\* not-found-or-private error.
C11_FileErrorsClassified ==
    (ffPc = "done" /\ ffResponses # <<>> /\ lastFileResponse.net) =>
        /\ lastFileResponse.status = 401 => ffResult = FFError(MSG_BAD_CREDENTIALS)
        /\ lastFileResponse.status = 404 => ffResult = FFError(MSG_NOT_FOUND)

\* C12: buildTreeStructure is pure: after the call the list it was given
\* holds the same entries in the same order as before the call.
C12_InputUnchanged == treeCalled => items = input

RECURSIVE allNodes(_)
\* the nodes reachable from the list of nodes l
allNodes(l) ==
    {l[i] : i \in 1..Len(l)} \cup UNION {allNodes(l[i].children) : i \in 1..Len(l)}

\* C13: in a returned forest a node has a children container exactly when
\* its type is tree (a blob node has none, so no child either), and its type
\* and sha are those of the entry with its path.
C13_ChildrenIffTree ==
    treeCalled =>
        \A n \in allNodes(treeOut) :
            /\ n.hasChildren <=> n.type = "tree"
            /\ ~n.hasChildren => n.children = <<>>
            /\ \E i \in 1..Len(input) :
                  /\ input[i].path = n.path
                  /\ input[i].type = n.type
                  /\ input[i].sha = n.sha

C13_Witness ==
    /\ treeCalled
    /\ \E d, e, f \in allNodes(treeOut) :
          /\ d.type = "tree" /\ d.hasChildren /\ d.children = <<>>
          /\ e.type = "tree" /\ e.children # <<>>
          /\ f.type = "blob" /\ ~f.hasChildren

(***************************************************************************)
(* Properties of the bulk export                                           *)
(***************************************************************************)
\* the name of the archive entry of the file at position i
entryNameOf(i) == archiveEntry(exFiles[i], "doc", exFormat).name

\* C14: when the fetch of a file fails during an export, the failure is not
\* fatal: no error is alerted, the export goes on, and once it has ended
\* every selected file has been worked on, the archive has been saved with
\* an entry for every file that did not fail, and isExporting is false.
C14_FailedFileIsSkipped ==
    exFailed # {} =>
        /\ exAlert = <<>>
        /\ exPc # "idle" => isExporting
        /\ exPc = "idle" =>
              /\ ~isExporting
              /\ exFinished = 1..Len(exFiles)
              /\ exSaved # <<>>
              /\ exSaved[1].entries = zipFiles
              /\ \A i \in (1..Len(exFiles)) \ exFailed :
                    \E k \in 1..Len(zipFiles) : zipFiles[k].name = entryNameOf(i)

C14_Witness ==
    /\ exPc = "idle"
    /\ exSaved # <<>>
    /\ \E i \in exFailed : i < Len(exFiles) /\ (i + 1) \notin exFailed
    /\ Len(exSaved[1].entries) >= 1

(***************************************************************************)
(* Properties of the repository load, continued                            *)
(***************************************************************************)
\* the commit sha of the first branch named n in list
shaOfBranch(list, n) ==
    list[CHOOSE k \in 1..Len(list) :
            /\ list[k].name = n
            /\ \A j \in 1..(k - 1) : list[j].name # n].commit.sha

\* C15: when handleFetchRepo has received the summary and a non-empty branch
\* list, the tree fetch of the selected branch is under way, issued with
\* the commit sha that this branch has in the list just received.
C15_TreeFetchUsesFetchedList ==
    (lastStep.op = "branchesResponse" /\ lastStep.branchList # <<>>) =>
        /\ appState = "LOADING_TREE"
        /\ \E f \in BagToSet(treeFetches) :
              f.sha = shaOfBranch(lastStep.branchList, selectedBranch)

(***************************************************************************)
(* Properties of buildTreeStructure, continued                             *)
(***************************************************************************)
hasSlash(p) == \E k \in 1..Len(p) : p[k] = SLASH

\* the path up to the last slash
parentPathOf(p) ==
    SubSeq(p, 1, (CHOOSE k \in 1..Len(p) :
                     p[k] = SLASH /\ \A j \in (k + 1)..Len(p) : p[j] # SLASH) - 1)

\* the path after the last slash
lastSegmentOf(p) ==
    IF hasSlash(p)
    THEN SubSeq(p, Len(parentPathOf(p)) + 2, Len(p))
    ELSE p

rootsWithPath(p) == {k \in 1..Len(treeOut) : treeOut[k].path = p}

yieldsContent(r, strategy) ==
    /\ r.net /\ responseOk(r) /\ r.json
    /\ IF strategy = "contents" THEN contentsAccepts(r.body) ELSE blobAccepts(r.body)
    /\ decodeContent(r.body.content).ok

blobOnlyAfterPlainMiss ==
    Len(ffRequests) = 2 =>
        /\ ffRequests[2] = "blob"
        /\ ffSha # <<>>
        /\ ~yieldsContent(ffResponses[1], "contents")
        /\ ~rateLimited(ffResponses[1])

noBlobAfterContent ==
    (Len(ffResponses) >= 1 /\ yieldsContent(ffResponses[1], "contents")) =>
        /\ ffRequests = <<"contents">>
        /\ ffPc = "done"
        /\ ffResult.kind = "content"

\* both strategies have ended without content: no contents content, and no
\* sha or no blob content
endedWithoutContent ==
    /\ ffPc = "done"
    /\ ~yieldsContent(ffResponses[1], "contents")
    /\ \/ ffSha = <<>>
       \/ Len(ffResponses) = 2 /\ ~yieldsContent(ffResponses[2], "blob")

\* C17 as stated: the blob request is issued only with a sha and after a
\* contents request that neither returned content nor was rate-limited;
\* whenever the contents request yields no content and there is no sha or
\* the blob request yields no base64 content, the error is the
\* content-unavailable one; after contents content no blob request is made.
C17_FallbackAsStated ==
    /\ blobOnlyAfterPlainMiss
    /\ noBlobAfterContent
    /\ endedWithoutContent => ffResult = FFError(MSG_FF_UNAVAILABLE)

\* C17 as amended: the content-unavailable error is the outcome when, in
\* addition, no request was answered with 403 or 429; a rate-limited
\* request ends the operation with the rate-limit error instead.
C17_FallbackUnlessRateLimited ==
    /\ blobOnlyAfterPlainMiss
    /\ noBlobAfterContent
    /\ endedWithoutContent =>
          IF \E i \in 1..Len(ffResponses) : rateLimited(ffResponses[i])
          THEN ffResult = FFError(MSG_FF_RATE_LIMIT)
          ELSE ffResult = FFError(MSG_FF_UNAVAILABLE)

C17_Witness ==
    /\ ffPc = "done"
    /\ ffSha # <<>>
    /\ ffRequests = <<"contents", "blob">>
    /\ ffResponses[1].status = 404
    /\ ffResponses[2].net /\ responseOk(ffResponses[2]) /\ ffResponses[2].json
    /\ ffResponses[2].body.encoding = "utf-8"
    /\ ffResult = FFError(MSG_FF_UNAVAILABLE)

(***************************************************************************)
(* Properties of parseRepoUrl, continued                                   *)
(***************************************************************************)
twoNonEmptyParts(url) ==
    LET parts == split(url, SLASH)
    IN  Len(parts) = 2 /\ parts[1] # <<>> /\ parts[2] # <<>>

\* C18: an input that neither matches the strict pattern nor contains the
\* forge hostname is accepted exactly when it splits on '/' into two
\* non-empty parts, and every pair returned has a non-empty owner and a
\* non-empty repo.
C18_FallbackNonEmptyParts ==
    parseCalled =>
        LET url == preprocess(urlArg)
        IN  /\ (~simplePattern(url) /\ ~includes(url, S_github)) =>
                  (parseOut.kind = "pair" <=> twoNonEmptyParts(url))
            /\ parseOut.kind = "pair" =>
                  parseOut.owner # <<>> /\ parseOut.repo # <<>>

(***************************************************************************)
(* Properties of the bulk export, continued                                *)
(***************************************************************************)
pairRequestsInFlight == {r \in exInFlight : r.kind \in PairKinds}

\* C19: the export is sequential: at most one request of a file's
\* fetch-then-generate pair is in flight, and while a request for the file
\* at position k is in flight the pairs of all files before it have ended
\* (completed or failed).
C19_ExportSequential ==
    /\ Cardinality(pairRequestsInFlight) <= 1
    /\ \A r \in pairRequestsInFlight :
          /\ r.i = exI + 1
          /\ \A j \in 1..(r.i - 1) : j \in exFinished

C19_Witness ==
    /\ Request("contents", 2) \in exInFlight
    /\ 1 \in exFinished /\ 1 \notin exFailed
    /\ Len(zipFiles) = 1

\* C20 as stated: during an export exportProgress.current is k only once
\* the fetch-then-generate pair of the file at position k has ended.
C20_ProgressAfterCompletion ==
    (isExporting /\ exportProgress.current >= 1) =>
        exportProgress.current \in exFinished

\* C20 as amended: exportProgress.current is advanced to k at the head of
\* the iteration of the file at position k: the pairs of the files before
\* it have ended, and its own requests are issued with current already k.
C20_ProgressAtIterationStart ==
    isExporting =>
        /\ exportProgress.current >= 1
        /\ exportProgress.current <= exportProgress.total
        /\ \A j \in 1..(exportProgress.current - 1) : j \in exFinished
        /\ \A r \in pairRequestsInFlight : r.i = exportProgress.current

C20_Witness ==
    /\ isExporting
    /\ exportProgress.current = 2
    /\ Request("contents", 2) \in exInFlight
    /\ 2 \notin exFinished

\* the positions of the selected files that were documented
documentedPositions == (1..Len(exFiles)) \ exFailed

\* C21: the saved archive holds, under the folder <repo>-docs, one entry
\* for every selected file that was processed successfully, named by the
\* file's path with '/' replaced by '_' plus the extension: k such files
\* with distinct paths give k distinct entries.
C21_OneEntryPerDocumentedFile ==
    (exPc = "idle" /\ exSaved # <<>>) =>
        /\ exSaved[1].folder = repoDetails[1].name \o S_docs
        /\ Len(exSaved[1].entries) = Cardinality(documentedPositions)
        /\ \A i \in documentedPositions :
              \E k \in 1..Len(exSaved[1].entries) :
                  exSaved[1].entries[k].name = entryNameOf(i)
        /\ \A k, l \in 1..Len(exSaved[1].entries) :
              k # l => exSaved[1].entries[k].name # exSaved[1].entries[l].name

(***************************************************************************)
(* Token management and the fetch wrapper (src/services/github.ts)         *)
(***************************************************************************)
MaxSent == 2         \* requests recorded in sent

T_p1 == <<"p", "1">>
T_p2 == <<"p", "2">>

\* the strings handed to setGitHubToken
TokenArgs == {<<>>, T_p1, T_p2}

S_bearer == <<"B", "e", "a", "r", "e", "r", " ">>
ACCEPT_V3 == "application/vnd.github.v3+json"

\* localStorage.setItem(TOKEN_KEY, token), only for a non-empty token
setGitHubToken(store, token) ==
    IF token # <<>> THEN <<token>> ELSE store

\* mutant: no credential is ever read
getGitHubToken_none(store) == <<>>

\* localStorage.getItem(TOKEN_KEY): <<>> is null
getGitHubToken(store) == store

\* localStorage.removeItem(TOKEN_KEY)
removeGitHubToken(store) == <<>>

\* a header set: a field is <<>> (absent) or <<value>>
NoHeaders == [Authorization |-> <<>>, Accept |-> <<>>]

\* the headers object of githubFetch: options.headers, then Authorization
\* when the token is truthy, then Accept
headersOf(optionHeaders, token) ==
    [Authorization |-> IF token # <<>> /\ token[1] # <<>>
                       THEN <<S_bearer \o token[1]>>
                       ELSE optionHeaders.Authorization,
     Accept |-> <<ACCEPT_V3>>]

\* githubFetch(url) as the five operations call it (options = {}): the
\* request handed to fetch
githubFetch(url, store) ==
    [url |-> url, headers |-> headersOf(NoHeaders, getGitHubToken(store))]

\* the endpoints of fetchRepoDetails, fetchBranches, fetchTree and the two
\* strategies of fetchFileContent
Endpoints == {"repo", "branches", "tree", "contents", "blob"}

CallSetGitHubToken ==
    /\ mode = "token"
    /\ \E t \in TokenArgs : localStorage' = setGitHubToken(localStorage, t)
    /\ UNCHANGED <<sent, mounted, hasToken, tokenInput, showSettingsModal>>
    /\ UNCHANGED <<mode, viewVars, treeVars, parseVars, apiVars, ffVars, appVars>>

CallRemoveGitHubToken ==
    /\ mode = "token"
    /\ localStorage' = removeGitHubToken(localStorage)
    /\ UNCHANGED <<sent, mounted, hasToken, tokenInput, showSettingsModal>>
    /\ UNCHANGED <<mode, viewVars, treeVars, parseVars, apiVars, ffVars, appVars>>

\* one of the five operations issues its request
CallGithubFetch ==
    /\ mode = "token"
    /\ Len(sent) < MaxSent
    /\ \E u \in Endpoints : sent' = Append(sent, githubFetch(u, localStorage))
    /\ UNCHANGED <<localStorage, mounted, hasToken, tokenInput, showSettingsModal>>
    /\ UNCHANGED <<mode, viewVars, treeVars, parseVars, apiVars, ffVars, appVars>>

\* the store as an earlier session left it
StoredBefore == {<<>>, <<T_p1>>}

InitToken ==
    /\ mode = "token"
    /\ IdleTree /\ IdleParse /\ IdleApi /\ IdleFetch
    /\ localStorage \in StoredBefore
    /\ sent = <<>>
    /\ mounted = FALSE
    /\ hasToken = FALSE
    /\ tokenInput = <<>>
    /\ showSettingsModal = FALSE
    /\ IdleView
    /\ IdlePage
    /\ IdleExport

NextToken ==
    \/ CallSetGitHubToken
    \/ CallRemoveGitHubToken
    \/ CallGithubFetch

SpecToken == InitToken /\ [][NextToken]_vars

\* C24: a request carries Authorization: Bearer t exactly when a token t is
\* stored when the request is made, and it always carries the fixed Accept
\* header.
C24_CredentialReadPerRequest ==
    [][Len(sent') > Len(sent) =>
          LET rq == sent'[Len(sent')]
          IN  /\ rq.headers.Accept = <<ACCEPT_V3>>
              /\ (rq.headers.Authorization # <<>>) <=> (localStorage # <<>>)
              /\ localStorage # <<>> =>
                     rq.headers.Authorization = <<S_bearer \o localStorage[1]>>]_vars

\* a request with the token set after the first request, which had none
C24_Witness ==
    /\ Len(sent) = 2
    /\ sent[1].headers.Authorization = <<>>
    /\ sent[2].headers.Authorization = <<S_bearer \o T_p2>>

(***************************************************************************)
(* The settings modal (src/unnamed/part_000): the mount effect,            *)
(* handleSaveToken, handleClearToken                                       *)
(***************************************************************************)
\* the texts typed into the token field
TokenInputs == {<<>>, T_p1}

\* useEffect(() => {...}, []): runs once, after the first render
MountEffect ==
    /\ mode = "settings"
    /\ ~mounted
    /\ mounted' = TRUE
    /\ LET token == getGitHubToken(localStorage)
       IN  IF token # <<>> /\ token[1] # <<>>
           THEN /\ hasToken' = TRUE
                /\ tokenInput' = token[1]
           ELSE UNCHANGED <<hasToken, tokenInput>>
    /\ UNCHANGED <<localStorage, sent, showSettingsModal>>
    /\ UNCHANGED <<mode, viewVars, treeVars, parseVars, apiVars, ffVars, appVars>>

\* the settings button of the header, or "Configure Token" of the error view
OpenSettings ==
    /\ mode = "settings"
    /\ mounted /\ ~showSettingsModal
    /\ showSettingsModal' = TRUE
    /\ UNCHANGED <<localStorage, sent, mounted, hasToken, tokenInput>>
    /\ UNCHANGED <<mode, viewVars, treeVars, parseVars, apiVars, ffVars, appVars>>

\* the close button of the modal
CloseSettings ==
    /\ mode = "settings"
    /\ showSettingsModal
    /\ showSettingsModal' = FALSE
    /\ UNCHANGED <<localStorage, sent, mounted, hasToken, tokenInput>>
    /\ UNCHANGED <<mode, viewVars, treeVars, parseVars, apiVars, ffVars, appVars>>

\* onChange of the token field
SetTokenInput ==
    /\ mode = "settings"
    /\ showSettingsModal
    /\ \E v \in TokenInputs \ {tokenInput} : tokenInput' = v
    /\ UNCHANGED <<localStorage, sent, mounted, hasToken, showSettingsModal>>
    /\ UNCHANGED <<mode, viewVars, treeVars, parseVars, apiVars, ffVars, appVars>>

\* mutant: every error makes handleSaveToken reload
reloadOnSave_anyError(state, message) == state = "ERROR"

\* appState === AppState.ERROR && errorMsg?.includes('Rate Limit')
reloadOnSave(state, message) ==
    /\ state = "ERROR"
    /\ message # <<>>
    /\ messageIncludesRateLimit(message[1].msg)

\* "Save Token": handleSaveToken, with handleFetchRepo() up to its first await
HandleSaveToken ==
    /\ mode = "settings"
    /\ showSettingsModal
    /\ localStorage' = setGitHubToken(localStorage, tokenInput)
    /\ hasToken' = TRUE
    /\ showSettingsModal' = FALSE
    /\ IF reloadOnSave(appState, errorMsg)
       THEN handleFetchRepoStart
       ELSE UNCHANGED <<uiVars, loads>>
    /\ lastStep' = [NoStep EXCEPT !.op = "handleSaveToken"]
    /\ UNCHANGED <<sent, mounted, tokenInput>>
    /\ UNCHANGED <<cbBranches, treeFetches, analyses>>
    /\ UNCHANGED <<mode, viewVars, treeVars, parseVars, apiVars, ffVars, exportVars>>

\* "Remove", rendered while hasToken: handleClearToken
HandleClearToken ==
    /\ mode = "settings"
    /\ showSettingsModal /\ hasToken
    /\ localStorage' = removeGitHubToken(localStorage)
    /\ tokenInput' = <<>>
    /\ hasToken' = FALSE
    /\ showSettingsModal' = FALSE
    /\ UNCHANGED <<sent, mounted>>
    /\ UNCHANGED <<mode, viewVars, treeVars, parseVars, apiVars, ffVars, appVars>>

InitSettings ==
    /\ mode = "settings"
    /\ IdleTree /\ IdleParse /\ IdleApi /\ IdleFetch
    /\ localStorage \in StoredBefore
    /\ sent = <<>>
    /\ mounted = FALSE
    /\ hasToken = FALSE
    /\ tokenInput = <<>>
    /\ showSettingsModal = FALSE
    /\ IdleView
    /\ IdlePage
    /\ IdleExport

NextSettings ==
    \/ MountEffect
    \/ OpenSettings
    \/ CloseSettings
    \/ SetTokenInput
    \/ HandleSaveToken
    \/ HandleClearToken
    \/ SetUrlInput
    \/ SubmitRepoForm
    \/ DetailsResponse
    \/ BranchesResponse
    \/ TreeResponse
    \/ AnalysisDone
    \/ HandleBranchChange
    \/ BackToIdle

SpecSettings == InitSettings /\ [][NextSettings]_vars

\* C26: after the mount effect, hasToken is true exactly when a token is
\* stored under the credential key.
C26_HasTokenIffStored ==
    mounted => (hasToken <=> getGitHubToken(localStorage) # <<>>)

\* a handleFetchRepo invocation is started by this step
loadStarted ==
    \E l \in BagToSet(loads') :
        l.pc = "details" /\ CopiesIn(l, loads') > CopiesIn(l, loads)

\* a tree request is issued by this step
treeRequested ==
    \E f \in BagToSet(treeFetches') :
        CopiesIn(f, treeFetches') > CopiesIn(f, treeFetches)

\* C23 (as stated): no automatic retry; a load is started only by a
\* submission of the repository form, and no handler of the settings modal
\* (saving a token) re-issues a failed load.
C23_NoReloadBySaving ==
    [][loadStarted => ~showSettingsModal]_vars

\* C23 (amended): a load is started only by a submission of the repository
\* form or by saving a token while appState is ERROR with the rate-limit
\* message; a tree request is issued only by a branch change or by the load
\* that just received its branch list.
C23_ReloadOnlyOnRateLimit ==
    [][/\ (loadStarted /\ showSettingsModal) =>
              /\ appState = "ERROR"
              /\ errorMsg # <<>>
              /\ errorMsg[1].msg = MSG_RATE_LIMIT
              /\ hasToken' /\ ~showSettingsModal'
       /\ (loadStarted /\ ~showSettingsModal) =>
              /\ appState \in {"IDLE", "ERROR"}
              /\ parseRepoUrl(urlInput).kind # "null"
       /\ treeRequested =>
              \/ selectedBranch' # selectedBranch
              \/ lastStep'.op = "branchesResponse"]_vars

\* saving a token has just re-issued the load that failed on the rate limit
C23_Witness ==
    /\ lastStep.op = "handleSaveToken"
    /\ appState = "LOADING_REPO"
    /\ loads # EmptyBag
    /\ errorMsg = <<>>

\* the load has ended: the tree is shown, a branch must be chosen (no branch
\* was listed), or an error is shown with its message
settled ==
    \/ appState = "VIEWING"
    \/ appState = "SELECTING_BRANCH" /\ branches = <<>>
    \/ appState = "ERROR" /\ errorMsg # <<>>

\* C25: when every request is answered, a repository load does not stay in
\* LOADING_REPO or LOADING_TREE: appState eventually becomes VIEWING,
\* SELECTING_BRANCH (with an empty branch list) or ERROR (with errorMsg set).
C25_LoadSettles ==
    (appState \in {"LOADING_REPO", "LOADING_TREE"}) ~> settled

\* a load has gone through its three requests and the tree is shown
C25_Witness ==
    /\ appState = "VIEWING"
    /\ treeData # <<>>
    /\ loads = EmptyBag /\ treeFetches = EmptyBag

\* response r is a 2xx payload whose content field is the empty string
emptyContentPayload(r) ==
    /\ r.net /\ responseOk(r) /\ r.json
    /\ ~r.body.isArray /\ r.body.hasContent /\ r.body.content = <<>>

\* C28 (as stated): fetchFileContent never returns the empty string; a 2xx
\* payload whose content field is the empty string is treated as a
\* non-result by both strategies, and the operation then fails with the
\* content-unavailable error.
C28_NeverReturnsEmpty ==
    ffPc = "done" =>
        /\ ~(ffResult.kind = "content" /\ ffResult.text = <<>>)
        /\ (\A k \in 1..Len(ffResponses) : emptyContentPayload(ffResponses[k]))
               => ffResult = FFError(MSG_FF_UNAVAILABLE)

\* C28 (amended): the empty string is returned only for a payload whose
\* content field is not empty (and decodes to no text); a payload whose
\* content field is the empty string is never what the result is decoded
\* from, and when every answer is such a payload the operation fails with
\* the content-unavailable error.
C28_EmptyContentIsNoResult ==
    ffPc = "done" =>
        /\ ffResult.kind = "content" =>
               /\ ~emptyContentPayload(lastFileResponse)
               /\ ffResult.text = <<>> =>
                      /\ lastFileResponse.body.content # <<>>
                      /\ atob(removeNewlines(lastFileResponse.body.content)).bytes
                             \in {<<>>, BOM}
        /\ (\A k \in 1..Len(ffResponses) : emptyContentPayload(ffResponses[k]))
               => ffResult = FFError(MSG_FF_UNAVAILABLE)

\* both strategies were answered with an empty content field
C28_Witness ==
    /\ ffPc = "done"
    /\ Len(ffResponses) = 2
    /\ \A k \in 1..2 : emptyContentPayload(ffResponses[k])
    /\ ffResult = FFError(MSG_FF_UNAVAILABLE)

(***************************************************************************)
(* File selection (src/unnamed/part_000): handleFileSelect                 *)
(***************************************************************************)
MSG_ERROR_GENERATING == "Error generating docs: "

\* what generateCodeDocumentation returns (it never throws): the text, or
\* the text of its catch clause
ViewDocResults == {"doc", "Failed to generate documentation"}

\* the value handed to setFileDoc; of names the file the invocation was
\* started for (the string itself does not name it)
DocText(path, text) == [of |-> path, prefix |-> "", text |-> text]
DocError(path, msg) == [of |-> path, prefix |-> MSG_ERROR_GENERATING, text |-> msg]

\* a handleFileSelect invocation suspended at an await
Selection(node, pc) == [path |-> node.path, sha |-> node.sha, pc |-> pc]

\* finally { setIsGeneratingDoc(false) }: the value of isGeneratingDoc after
\* invocation s has ended
finallyClause(s, selected) == FALSE

\* mutant: a result is applied only for the file that is selected
applies_current(s, selected) == selected # <<>> /\ selected[1].path = s.path

\* setFileDoc in the try block and in the catch clause is not guarded
applies(s, selected) == TRUE

\* the invocation s ends with the value doc for setFileDoc
selectionEnds(s, doc) ==
    /\ selections' = takeOut(selections, s)
    /\ fileDoc' = IF applies(s, selectedFile) THEN <<doc>> ELSE fileDoc
    /\ isGeneratingDoc' = finallyClause(s, selectedFile)

\* the tree pane is rendered in the page states other than the search page
treeShown == appState \in {"SELECTING_BRANCH", "LOADING_TREE", "VIEWING"}

\* a click on a node of the tree: handleFileSelect up to its first await
HandleFileSelect ==
    /\ mode = "view"
    /\ treeShown
    /\ suspended < inFlightCap
    /\ \E node \in allNodes(treeData) :
        IF node.type # "blob"
        THEN UNCHANGED <<selectedFile, activeTab, fileDoc, isGeneratingDoc, selections>>
        ELSE IF selectedFile # <<>> /\ node.path = selectedFile[1].path
        THEN UNCHANGED <<selectedFile, activeTab, fileDoc, isGeneratingDoc, selections>>
        ELSE /\ selectedFile' = <<node>>
             /\ activeTab' = "docs"
             /\ fileDoc' = <<>>
             /\ IF repoDetails = <<>>
                THEN /\ isGeneratingDoc' = FALSE
                     /\ UNCHANGED selections
                ELSE /\ isGeneratingDoc' = TRUE
                     /\ selections' = putIn(selections, Selection(node, "contents"))
    /\ UNCHANGED <<urlInput, appState, errorMsg, repoDetails, branches, selectedBranch,
                   treeData, allItems, aiAnalysis, isAnalyzing, treeOf>>
    /\ UNCHANGED <<mode, tokenVars, treeVars, parseVars, apiVars, ffVars, procVars,
                   exportVars>>

\* the contents request of a suspended handleFileSelect settles
SelectContentsResponse ==
    /\ mode = "view"
    /\ \E s \in BagToSet(selections) :
        /\ s.pc = "contents"
        /\ \E r \in FileResponses :
            LET out == contentsStrategy(r)
            IN  IF out.kind = "content"
                THEN /\ selections' = putIn(takeOut(selections, s),
                                            [s EXCEPT !.pc = "generate"])
                     /\ UNCHANGED <<fileDoc, isGeneratingDoc>>
                ELSE IF out.kind = "error"
                THEN selectionEnds(s, DocError(s.path, out.msg))
                ELSE IF shaSupplied(s.sha)
                THEN /\ selections' = putIn(takeOut(selections, s),
                                            [s EXCEPT !.pc = "blob"])
                     /\ UNCHANGED <<fileDoc, isGeneratingDoc>>
                ELSE selectionEnds(s, DocError(s.path, MSG_FF_UNAVAILABLE))
    /\ UNCHANGED <<urlInput, appState, errorMsg, repoDetails, branches, selectedBranch,
                   treeData, allItems, aiAnalysis, isAnalyzing, activeTab, selectedFile,
                   treeOf>>
    /\ UNCHANGED <<mode, tokenVars, treeVars, parseVars, apiVars, ffVars, procVars,
                   exportVars>>

\* the blob request of a suspended handleFileSelect settles
SelectBlobResponse ==
    /\ mode = "view"
    /\ \E s \in BagToSet(selections) :
        /\ s.pc = "blob"
        /\ \E r \in FileResponses :
            LET out == blobStrategy(r)
            IN  IF out.kind = "content"
                THEN /\ selections' = putIn(takeOut(selections, s),
                                            [s EXCEPT !.pc = "generate"])
                     /\ UNCHANGED <<fileDoc, isGeneratingDoc>>
                ELSE IF out.kind = "error"
                THEN selectionEnds(s, DocError(s.path, out.msg))
                ELSE selectionEnds(s, DocError(s.path, MSG_FF_UNAVAILABLE))
    /\ UNCHANGED <<urlInput, appState, errorMsg, repoDetails, branches, selectedBranch,
                   treeData, allItems, aiAnalysis, isAnalyzing, activeTab, selectedFile,
                   treeOf>>
    /\ UNCHANGED <<mode, tokenVars, treeVars, parseVars, apiVars, ffVars, procVars,
                   exportVars>>

\* generateCodeDocumentation of a suspended handleFileSelect settles
SelectDocGenerated ==
    /\ mode = "view"
    /\ \E s \in BagToSet(selections) :
        /\ s.pc = "generate"
        /\ \E d \in ViewDocResults : selectionEnds(s, DocText(s.path, d))
    /\ UNCHANGED <<urlInput, appState, errorMsg, repoDetails, branches, selectedBranch,
                   treeData, allItems, aiAnalysis, isAnalyzing, activeTab, selectedFile,
                   treeOf>>
    /\ UNCHANGED <<mode, tokenVars, treeVars, parseVars, apiVars, ffVars, procVars,
                   exportVars>>

\* the repository is shown: the tree of the default branch, nothing in
\* flight; a load started before the tree arrived may have reset repoDetails
\* and branches
InitView ==
    /\ mode = "view"
    /\ IdleTree /\ IdleParse /\ IdleApi /\ IdleFetch
    /\ IdleToken /\ IdleView /\ IdleExport
    /\ urlInput = S_repoA
    /\ appState = "VIEWING"
    /\ errorMsg = <<>>
    /\ \E d \in OneDetails :
          \E r \in {HttpResponse(200, "", d)} :
              \/ repoDetails = <<>> /\ branches = <<>>
              \/ /\ repoDetails = <<fetchRepoDetails(r).value>>
                 /\ branches \in OneBranchLists
    /\ selectedBranch = "main"
    /\ \E t \in OneTree :
          /\ allItems = sortItems(t.tree)
          /\ treeData = buildTreeStructure(t.tree)
    /\ aiAnalysis = <<"generated">>
    /\ isAnalyzing = FALSE
    /\ activeTab = "overview"
    /\ selectedFile = <<>>
    /\ fileDoc = <<>>
    /\ cbBranches = <<>>
    /\ loads = EmptyBag
    /\ treeFetches = EmptyBag
    /\ analyses = 0
    /\ lastStep = NoStep

NextView ==
    \/ HandleFileSelect
    \/ SelectContentsResponse
    \/ SelectBlobResponse
    \/ SelectDocGenerated
    \/ HandleBranchChange
    \/ TreeResponse
    \/ AnalysisDone

SpecView == InitView /\ [][NextView]_vars

\* the handleFileSelect invocation s ends with this step
selectionEnded(s) ==
    /\ CopiesIn(s, selections') < CopiesIn(s, selections)
    /\ BagCardinality(selections') < BagCardinality(selections)

\* the tree request f is answered with a tree by this step
treeArrived(f) ==
    /\ CopiesIn(f, treeFetches') < CopiesIn(f, treeFetches)
    /\ analyses' > analyses

\* C22: stale responses are never discarded: when a handleFileSelect
\* invocation ends, its result becomes fileDoc whatever file is selected by
\* then, and when a tree request is answered with a tree, that tree becomes
\* treeData whatever branch is selected by then.
C22_LastWriteWins ==
    [][/\ \A s \in BagToSet(selections) :
              selectionEnded(s) => fileDoc' # <<>> /\ fileDoc'[1].of = s.path
       /\ \A f \in BagToSet(treeFetches) :
              treeArrived(f) =>
                  /\ treeOf' = <<f.sha>>
                  /\ treeData' = buildTreeStructure(allItems')
                  /\ appState' = "VIEWING"]_vars

\* the result for the file selected first arrived last: another file is
\* selected and fileDoc holds the first file's documentation; and the tree
\* shown is the one requested for a branch that is no longer selected
C22_Witness ==
    /\ selections = EmptyBag
    /\ selectedFile # <<>> /\ fileDoc # <<>>
    /\ fileDoc[1].of # selectedFile[1].path
    /\ fileDoc[1].prefix = ""
    /\ treeFetches = EmptyBag /\ appState = "VIEWING" /\ branches # <<>>
    /\ treeOf # <<>> /\ treeOf[1] # shaOfBranch(branches, selectedBranch)

\* C27: isGeneratingDoc is true as long as the request for the selected file
\* is in flight; the end of a request for a superseded selection does not
\* clear it.
C27_LoadingTracksSelection ==
    (selectedFile # <<>> /\ \E s \in BagToSet(selections) :
                                s.path = selectedFile[1].path)
        => isGeneratingDoc

====
